---- MODULE Spec2Model ----
(***************************************************************************)
(* A model of pgextkit: the shared registry (src/src/shmem.rs), the        *)
(* preload reservation list and the segment-mapping hook                   *)
(* (src/src/ext/mod.rs), the named lock (src/src/lwlock.rs) and the latch  *)
(* with its signal flags (src/src/latch.rs).                               *)
(*                                                                         *)
(* Each component has its own specification over the same variables:       *)
(*   SpecRegistry   insert / get / get_mut by concurrent processes         *)
(*   SpecHook       preload reservations and __pgx_private_shmem_hook      *)
(*   SpecHookLocks  the hook and its closures, one lock call at a time     *)
(*   SpecLock       PgDynamicLwLock share / exclusive / guard drop         *)
(*   SpecLatch      SharedLatch / OwnedLatch own / set / wait / disown     *)
(*   SpecLatchFair  SpecLatch with the scheduler's fairness                *)
(*   SpecSignal     OwnedLatch signal handlers and signal flags            *)
(*   SpecWorker     the example's worker loop under termination signals    *)
(*   SpecModules    module discovery, validation and initialization        *)
(*   SpecFleet      master_worker and database_worker starting workers     *)
(*   SpecFleetStarted  SpecFleet when every per-database worker starts     *)
(*   SpecSignalDisown  the signal flags, with disown on kept handles       *)
(*   SpecDynamic    allocate_shmem on a dynamic-load handle                *)
(*   SpecSlots      DatabaseLocal::for_my_database, one call at a time     *)
(*   SpecSlotsShared  for_my_database by concurrent processes              *)
(* A component's actions leave the other components' variables unchanged.  *)
(***************************************************************************)
EXTENDS Integers, Sequences, FiniteSets, TLC

\* The cooperating OS processes attached to the shared segment.
Procs == {1, 2}
\* No process (a zero pid).
NoProc == 0

(***************************************************************************)
(* Bounds of the model.                                                    *)
(***************************************************************************)
\* heapless::String<96>: the capacity of a key, scaled from 96 bytes.
KEY_CAPACITY == 2
\* The longest name a caller passes (one byte more than a key can hold).
MaxNameLen == 3
\* MAX_ATTACHMENTS, the size the hash table is created with, scaled from 8192.
MAX_ATTACHMENTS == 2
\* The most reservations the preloaded modules make.
MaxReservations == 3
\* The largest size of a reservation (size_of::<T>(), which may be 0).
MaxAllocSize == 2
\* How often the host runs the segment-mapping hook.
MaxHookRuns == 2
\* SHMEM_SIZE, the size of the dynamic region (pgextkit.shmem_size), scaled.
ShmemSize == 3
\* The size of the registry's hash table (hash_estimate_size), scaled.
DictSize == 3
\* The most shared guards one process holds on one lock at a time.
MaxHold == 2
\* The most background workers the preloaded modules register.
MaxWorkers == 1
\* The most allocate_shmem calls made through dynamic-load handles.
MaxDynamic == 2
\* The most wait handles (OwnedLatch) the processes create in all.
MaxHandles == 3
\* The most wait handles made while the signal flags are explored.
MaxSignalHandles == 2
\* The most entries of the processes' OWNED_LATCHES in all.
MaxRegistered == 2
\* DatabaseLocal<T, N>: the number of slots of a slot table, scaled from 8.
N == 2
\* The database identifiers (Oid) the callers of for_my_database serve: one
\* more than a slot table has slots.
MaxOid == 3
\* The most for_my_database calls made on the slot table.
MaxSlotCalls == 4
\* The control files found in the extension directory.
MaxCandidates == 2
\* The most on-demand load() calls.
MaxLoads == 2
\* The connectable, non-template databases of the host.
MaxDatabases == 2
\* How often the supervisor restarts the master worker after it has failed.
MaxMasterRestarts == 1

(***************************************************************************)
(* Constants of the program.                                               *)
(***************************************************************************)
\* SignalWakeFlags::SIGHUP and SignalWakeFlags::SIGTERM, the flag bits.
FLAG_SIGHUP == 1
FLAG_SIGTERM == 2
\* pg_sys::SIGHUP and pg_sys::SIGTERM, the signal numbers.
SIGHUP == 1
SIGTERM == 15
\* pgextkit::VERSION, the protocol version.
VERSION == 0
\* size_of::<Magic>(): a usize and a u8, padded.
SizeOfMagic == 16

VARIABLES
    \* ---- the shared registry (shmem.rs) ----
    dict,       \* key -> the entry: [state |-> "absent" | "unwritten" | "written", value |-> pointer]
    dictLock,   \* the registry's LWLock: [excl |-> holder or NoProc, shared |-> set of holders]
    dpc,        \* per process: where it is inside insert / get
    dop,        \* per process: the call in progress or last finished [kind, name, value]
    dfound,     \* per process: hash_search's found flag
    dentry,     \* per process: hash_search's result, a key (the entry) or NULL
    dret,       \* per process: the result of the last finished call
    inserted,   \* history: key -> the pointer given by the insert that created the entry, and whether that insert has returned
    dafter      \* history: per process, whether its lookup was issued after the creating insert returned

dictVars == <<dict, dictLock, dpc, dop, dfound, dentry, dret, inserted, dafter>>

VARIABLES
    \* ---- preload reservations and the segment-mapping hook (ext/mod.rs) ----
    hpc,             \* the host: "preload", inside the hook, or "mapped"
    ALLOC_CALLBACKS, \* the pending list: a sequence of [cb, size, payload]
    shmemIndex,      \* the segment's index of named structures: set of [name, base, size]
    shmemFree,       \* the first byte of the segment not yet handed out
    ALLOCATOR,       \* the sub-allocator of the dynamic region: [initialized, base, size]
    hookRuns,        \* how often the hook has been entered
    uuids,           \* how many uuid names the hook has generated
    calls,           \* history: the callback invocations, a sequence of [cb, payload, mem, size]
    submitted,       \* history: every reservation ever pushed, in order
    BACKGROUND_WORKERS, \* the workers modules registered at preload: a sequence of modules
    started          \* the entries of BACKGROUND_WORKERS whose worker process has started

workerVars == <<BACKGROUND_WORKERS, started>>

hookVars == <<hpc, ALLOC_CALLBACKS, shmemIndex, shmemFree, ALLOCATOR, hookRuns,
              uuids, calls, submitted, workerVars>>

VARIABLES
    \* ---- PgDynamicLwLock (lwlock.rs) ----
    lwInit,         \* per lock: whether its OnceCell holds (tranche id, LWLock)
    lwTranche,      \* per lock: the tranche id in its OnceCell
    trancheCounter, \* the host's counter behind LWLockNewTrancheId
    lwRegistered,   \* per process: the (tranche id, name) pairs it has registered
    lwState,        \* per lock: the LWLock's state, [excl |-> BOOLEAN, shared |-> count]
    guards,         \* per process and lock: the live guards, [shared |-> count, excl |-> count]
    lpc,            \* per process: "idle", or the mode it is acquiring in LWLockAcquire
    larg            \* per process: the lock it is acquiring

lockVars == <<lwInit, lwTranche, trancheCounter, lwRegistered, lwState, guards, lpc, larg>>

VARIABLES
    \* ---- SharedLatch / OwnedLatch (latch.rs) ----
    latch,         \* per latch: [is_set |-> BOOLEAN, owner_pid |-> process or NoProc]
    handles,       \* per process: its OwnedLatch objects, a sequence of [latch, alive]
    OWNED_LATCHES, \* per process: the Weak references pushed, a sequence of handle indices
    SIGNALS,       \* per process: flag -> AtomicBool
    sigHandlers,   \* per process: the signals signal_handler is installed for
    wpc,           \* per process: "idle", "waiting" in WaitLatch, "woken" before ResetLatch, "crashed"
    warg,          \* per process: the wait in progress, [h |-> handle index, timeout |-> BOOLEAN]
    notified,      \* per process: WaitLatch is about to look at the wake bit (on entry, or woken)
    pmAlive,       \* whether the supervisor process is alive
    wakePending,   \* history: per latch, a set_and_wake_up no wait has observed yet
    pendingSig     \* history: per process and flag, a delivery no signal_received has followed yet

latchVars == <<latch, handles, OWNED_LATCHES, SIGNALS, sigHandlers, wpc, warg,
               notified, pmAlive, wakePending, pendingSig>>

VARIABLES
    \* ---- allocate_shmem on a dynamic-load handle (ext/mod.rs) ----
    ypc,          \* per backend process: "idle", "allocated" (before the callback), "crashed"
    yreq,         \* per backend process: the call in progress, [cb, size, payload, mem]
    backendUsed,  \* per backend process: the bytes its copy of ALLOCATOR has handed out
    dynCount,     \* how many dynamic allocate_shmem calls were made
    dynCalls      \* history: the callback invocations, a sequence of [proc, cb, payload, mem, size]

dynVars == <<ypc, yreq, backendUsed, dynCount, dynCalls>>

VARIABLES
    \* ---- the per-database slot table (db.rs) ----
    counter,    \* DatabaseLocal.counter, the next free slot index
    mapping,    \* DatabaseLocal.mapping: database identifier -> slot index, for the identifiers mapped
    spc,        \* per process: where it is inside for_my_database
    sarg,       \* per process: [db, c]: MyDatabaseId of the call and the slot index it works with
    sret,       \* per process: the result of its last finished call, [db, slot]
    claimed,    \* history: database identifier -> the slot its first finished call returned
    slotCalls   \* how many for_my_database calls were made

slotVars == <<counter, mapping, spc, sarg, sret, claimed, slotCalls>>

VARIABLES
    \* ---- module discovery and loading (ext/mod.rs) ----
    candidates,  \* control file -> what its library is: [loads, probe, magic_size, version, init]
    modState,    \* control file -> "discovered", "validated", "initialized", "skipped" at preload
    preloadPos,  \* the control file _PG_init's loop is at; past the last one when it is done
    loadResult,  \* control file -> the outcome of the last load() of it, "none" before
    initCalls,   \* history: the calls of pgextkit_init, a set of [cand, at]
    loads        \* how many load() calls were made

modVars == <<candidates, modState, preloadPos, loadResult, initCalls, loads>>

VARIABLES
    \* ---- the master and per-database worker loops (ext/workers.rs) ----
    pg_database,    \* the connectable, non-template databases in the catalog
    mpc,            \* the master worker: "scan", "starting", "waiting", "failed", "exited"
    databases,      \* master_worker's local `databases`, the databases it has started workers for
    new_dbs,        \* master_worker's local `new_dbs`, in catalog order
    next_db,        \* the position of `for database in &new_dbs`
    bgw_extra,      \* the bgw_extra of the entries of BACKGROUND_WORKERS in the per-database worker that ran last
    dbWorkers,      \* history: database -> how many per-database workers were started for it
    dbUnregistered, \* database -> how many of its per-database workers have yet to register module workers
    modWorkers,     \* history: database -> entry of BACKGROUND_WORKERS -> how often it was registered for it
    masterRestarts  \* how often the supervisor has restarted the master

fleetVars == <<pg_database, mpc, databases, new_dbs, next_db, bgw_extra, dbWorkers,
               dbUnregistered, modWorkers, masterRestarts>>

VARIABLES
    \* ---- the locks taken by the segment-mapping hook (ext/mod.rs, shmem.rs) ----
    addinLock,      \* AddinShmemInitLock: the process that holds it, or NoProc
    kpc,            \* where the hook is between its lock calls
    kcb             \* the reservation the hook's loop is at, with the memory carved for it

lkVars == <<addinLock, kpc, kcb>>

\* The variables of the components below the dynamic handle.
restVars == <<slotVars, modVars, fleetVars, lkVars>>

vars == <<dictVars, hookVars, lockVars, latchVars, dynVars, restVars>>

\* What each component's actions leave unchanged.
dictOthers == <<hookVars, lockVars, latchVars, dynVars, restVars>>
hookOthers == <<dictVars, lockVars, latchVars, dynVars, restVars>>
lockOthers == <<dictVars, hookVars, latchVars, dynVars, restVars>>
latchOthers == <<dictVars, hookVars, lockVars, dynVars, restVars>>
dynOthers == <<dictVars, lockVars, latchVars, restVars>>
slotOthers == <<dictVars, hookVars, lockVars, latchVars, dynVars, modVars, fleetVars, lkVars>>
modOthers == <<dictVars, hookVars, lockVars, latchVars, dynVars, slotVars, fleetVars, lkVars>>
fleetOthers == <<dictVars, hookVars, lockVars, latchVars, dynVars, slotVars, modVars, lkVars>>
lkOthers == <<lockVars, latchVars, dynVars, slotVars, modVars, fleetVars>>

(***************************************************************************)
(* The shared registry: src/src/shmem.rs                                   *)
(***************************************************************************)
\* A name is a byte string; one byte value suffices to tell names apart by length.
NameOfLen(n) == [i \in 1..n |-> 1]
Names == {NameOfLen(n) : n \in 0..MaxNameLen}
\* The keys a heapless::String<96> can hold.
Keys == {n \in Names : Len(n) <= KEY_CAPACITY}
\* Pointers to objects in the shared segment.
Ptrs == {1, 2}
NULL == 0
\* The NULL entry pointer hash_search returns.
NoEntry == <<0>>

\* An entry of the hash table. The memory of a new entry holds no pointer
\* until insert writes one.
AbsentEntry == [state |-> "absent", value |-> NULL]
UnwrittenEntry == [state |-> "unwritten", value |-> NULL]
WrittenEntry(v) == [state |-> "written", value |-> v]

\* heapless::String::<96>::from(name): push_str(name).unwrap(), which panics
\* when the name does not fit.
HeaplessFrom(name) ==
    IF Len(name) <= KEY_CAPACITY THEN [panic |-> FALSE, key |-> name]
    ELSE [panic |-> TRUE, key |-> <<>>]

\* The number of entries of the hash table.
NumEntries(d) == Cardinality({k \in Keys : d[k].state # "absent"})

\* hash_search_with_hash_value(.., HASH_ENTER_NULL, &found): the entry of the
\* key when there is one (found), else a new entry (not found), else NULL
\* (not found) when the table has no element left.
HashEnterNull(d, key) ==
    IF d[key].state # "absent" THEN [found |-> TRUE, entry |-> key, table |-> d]
    ELSE IF NumEntries(d) >= MAX_ATTACHMENTS
         THEN [found |-> FALSE, entry |-> NoEntry, table |-> d]
         ELSE [found |-> FALSE, entry |-> key,
               table |-> [d EXCEPT ![key] = UnwrittenEntry]]

\* hash_search_with_hash_value(.., HASH_FIND, &found): the entry or NULL.
HashFind(d, key) ==
    IF d[key].state # "absent" THEN [found |-> TRUE, entry |-> key]
    ELSE [found |-> FALSE, entry |-> NoEntry]

\* LWLockAcquire returns once the mode is compatible with the holders.
LWLockCanAcquire(lk, mode) ==
    IF mode = "exclusive" THEN lk.excl = NoProc /\ lk.shared = {}
    ELSE lk.excl = NoProc

NoOp == [kind |-> "none", name |-> <<>>, value |-> NULL]
\* The results of a call: none yet, insert's (), get's Some(pointer) or None,
\* or the error a panic is turned into.
NoResult == [tag |-> "none", value |-> NULL]
UnitResult == [tag |-> "unit", value |-> NULL]
ErrorResult == [tag |-> "error", value |-> NULL]

\* The locks modules create (PgDynamicLwLock::new), each with its name.
Locks == {1, 2}
LockName(l) == "A"
NoLock == 0

\* The state of the locks' variables: no lock has been used yet.
LockInit ==
    /\ lwInit = [l \in Locks |-> FALSE]
    /\ lwTranche = [l \in Locks |-> 0]
    /\ trancheCounter = 0
    /\ lwRegistered = [p \in Procs |-> {}]
    /\ lwState = [l \in Locks |-> [excl |-> FALSE, shared |-> 0]]
    /\ guards = [p \in Procs |-> [l \in Locks |-> [shared |-> 0, excl |-> 0]]]
    /\ lpc = [p \in Procs |-> "idle"]
    /\ larg = [p \in Procs |-> NoLock]

\* The latches in the shared segment (SharedLatch::new).
Latches == {1, 2}
\* The named signal flags.
Flags == {FLAG_SIGHUP, FLAG_SIGTERM}
\* The signals attach_signal_handlers installs signal_handler for.
Signals == {SIGHUP, SIGTERM}
NoWait == [h |-> 0, timeout |-> FALSE]
\* A wait handle after its drop: its Arc, and the latch pointer in it, are gone.
NoLatch == 0
DroppedHandle == [latch |-> NoLatch, alive |-> FALSE, disowned |-> FALSE]

\* The state of the latches' variables: SharedLatch::new (InitSharedLatch)
\* leaves a latch unset and unowned; no process has made a wait handle.
LatchInit ==
    /\ latch = [l \in Latches |-> [is_set |-> FALSE, owner_pid |-> NoProc]]
    /\ handles = [p \in Procs |-> <<>>]
    /\ OWNED_LATCHES = [p \in Procs |-> <<>>]
    /\ SIGNALS = [p \in Procs |-> [f \in Flags |-> FALSE]]
    /\ sigHandlers = [p \in Procs |-> {}]
    /\ wpc = [p \in Procs |-> "idle"]
    /\ warg = [p \in Procs |-> NoWait]
    /\ notified = [p \in Procs |-> FALSE]
    /\ pmAlive = TRUE
    /\ wakePending = [l \in Latches |-> FALSE]
    /\ pendingSig = [p \in Procs |-> [f \in Flags |-> FALSE]]

\* No dynamic allocate_shmem call.
\* What GlobalAlloc::alloc returns: a null pointer or an address.
NullPtr == [null |-> TRUE, addr |-> 0]
PtrTo(a) == [null |-> FALSE, addr |-> a]
NoDynReq == [cb |-> "none", size |-> 0, payload |-> 0, mem |-> NullPtr]

\* The state of the dynamic handle's variables: no backend has loaded a module.
DynInit ==
    /\ ypc = [p \in Procs |-> "idle"]
    /\ yreq = [p \in Procs |-> NoDynReq]
    /\ backendUsed = [p \in Procs |-> 0]
    /\ dynCount = 0
    /\ dynCalls = <<>>

\* Database identifiers, slot indexes, and the marks for none of either.
Oids == 1..MaxOid
NoOid == 0
NoSlot == N + MaxSlotCalls + 1
NoSlotCall == [db |-> NoOid, c |-> 0]
NoSlotResult == [db |-> NoOid, slot |-> NoSlot]

\* DatabaseLocal::new, lines 16-23: the slots are built, the counter is 0
\* and the mapping is empty.
SlotInit ==
    /\ counter = 0
    /\ mapping = [db \in {} |-> 0]
    /\ spc = [p \in Procs |-> "idle"]
    /\ sarg = [p \in Procs |-> NoSlotCall]
    /\ sret = [p \in Procs |-> NoSlotResult]
    /\ claimed = [db \in Oids |-> NoSlot]
    /\ slotCalls = 0

\* What a control file's library can be: whether it can be opened, whether
\* it exports pgextkit_magic and what the Magic it returns holds, and whether
\* it exports pgextkit_init. What cannot be seen is left at one value.
Candidates == 1..MaxCandidates
GoodLibrary ==
    [loads |-> TRUE, probe |-> TRUE, magic_size |-> SizeOfMagic, version |-> VERSION,
     init |-> TRUE]
Libraries ==
    {l \in [loads : BOOLEAN, probe : BOOLEAN,
            magic_size : {SizeOfMagic, SizeOfMagic - 8}, version : {VERSION, VERSION + 1},
            init : BOOLEAN] :
        /\ ~l.loads => (l.probe /\ l.init)
        /\ (~l.loads \/ ~l.probe) => (l.magic_size = SizeOfMagic /\ l.version = VERSION)}

\* The modules' variables before _PG_init has looked at any control file.
ModStart(cands) ==
    /\ candidates = cands
    /\ modState = [c \in Candidates |-> "discovered"]
    /\ preloadPos = 1
    /\ loadResult = [c \in Candidates |-> "none"]
    /\ initCalls = {}
    /\ loads = 0
ModIdle == ModStart([c \in Candidates |-> GoodLibrary])

\* The databases the host can have.
Databases == 1..MaxDatabases

\* The roles that own extensions, and bgw_extra as the supervisor holds it.
Users == {1, 2}
NoExtra == [username |-> 0, database |-> 0]

\* The worker loops' variables when the master worker starts.
FleetIdle ==
    /\ pg_database = {1}
    /\ mpc = "scan"
    /\ databases = <<>>
    /\ new_dbs = <<>>
    /\ next_db = 1
    /\ bgw_extra = [i \in 1..MaxWorkers |-> NoExtra]
    /\ dbWorkers = [d \in Databases |-> 0]
    /\ dbUnregistered = [d \in Databases |-> 0]
    /\ modWorkers = [d \in Databases |-> [i \in 1..MaxWorkers |-> 0]]
    /\ masterRestarts = 0

\* The hook has not been entered: its locks are free.
NoCb == [cb |-> "none", size |-> 0, payload |-> 0, mem |-> 0]
LkIdle ==
    /\ addinLock = NoProc
    /\ kpc = "idle"
    /\ kcb = NoCb

\* The state of the variables of the components below the dynamic handle.
RestInit == SlotInit /\ ModIdle /\ FleetIdle /\ LkIdle

\* The state of the hook's variables while the registry is exercised.
HookIdle ==
    /\ hpc = "mapped"
    /\ ALLOC_CALLBACKS = <<>>
    /\ shmemIndex = {}
    /\ shmemFree = 0
    /\ ALLOCATOR = [initialized |-> FALSE, base |-> 0, size |-> 0]
    /\ hookRuns = 0
    /\ uuids = 0
    /\ calls = <<>>
    /\ submitted = <<>>
    /\ BACKGROUND_WORKERS = <<>>
    /\ started = {}

\* The state of the registry's variables.
RegistryInit ==
    /\ dict = [k \in Keys |-> AbsentEntry]
    /\ dictLock = [excl |-> NoProc, shared |-> {}]
    /\ dpc = [p \in Procs |-> "idle"]
    /\ dop = [p \in Procs |-> NoOp]
    /\ dfound = [p \in Procs |-> FALSE]
    /\ dentry = [p \in Procs |-> NoEntry]
    /\ dret = [p \in Procs |-> NoResult]
    /\ inserted = [k \in Keys |-> [value |-> NULL, returned |-> FALSE]]
    /\ dafter = [p \in Procs |-> FALSE]

InitRegistry == RegistryInit /\ HookIdle /\ LockInit /\ LatchInit /\ DynInit /\ RestInit

\* insert, lines 80-85: the call takes the registry lock in exclusive mode.
insert_acquire(p, name, value) ==
    /\ dpc[p] = "idle"
    /\ LWLockCanAcquire(dictLock, "exclusive")
    /\ dictLock' = [dictLock EXCEPT !.excl = p]
    /\ dpc' = [dpc EXCEPT ![p] = "insert_search"]
    /\ dop' = [dop EXCEPT ![p] = [kind |-> "insert", name |-> name, value |-> value]]
    /\ dfound' = [dfound EXCEPT ![p] = FALSE]
    /\ dentry' = [dentry EXCEPT ![p] = NoEntry]
    /\ dret' = [dret EXCEPT ![p] = NoResult]
    /\ dafter' = [dafter EXCEPT ![p] = FALSE]
    /\ UNCHANGED <<dict, inserted>>
    /\ UNCHANGED dictOthers

\* insert, lines 86-99: the key is built and searched with HASH_ENTER_NULL.
insert_search(p) ==
    /\ dpc[p] = "insert_search"
    /\ LET name == HeaplessFrom(dop[p].name) IN
       IF name.panic
       THEN /\ dpc' = [dpc EXCEPT ![p] = "panicked"]
            /\ UNCHANGED <<dict, dfound, dentry, inserted>>
       ELSE LET r == HashEnterNull(dict, name.key) IN
            /\ dict' = r.table
            /\ dfound' = [dfound EXCEPT ![p] = r.found]
            /\ dentry' = [dentry EXCEPT ![p] = r.entry]
            /\ inserted' = IF ~r.found /\ r.entry # NoEntry
                           THEN [inserted EXCEPT ![name.key] =
                                    [value |-> dop[p].value, returned |-> FALSE]]
                           ELSE inserted
            /\ dpc' = [dpc EXCEPT ![p] = "insert_release"]
    /\ UNCHANGED <<dictLock, dop, dret, dafter>>
    /\ UNCHANGED dictOthers

\* A variant of DictLockRelease that leaves the lock held (the release left
\* to the end of the caller's transaction).
DictLockReleaseSkipped(lk, p) == lk

\* pg_sys::LWLockRelease(lock), insert line 101 and internal_get line 132:
\* the process's hold on the registry lock is dropped.
DictLockRelease(lk, p) ==
    [excl |-> IF lk.excl = p THEN NoProc ELSE lk.excl, shared |-> lk.shared \ {p}]

\* insert, lines 100-102: the lock is released before the entry is written.
insert_release(p) ==
    /\ dpc[p] = "insert_release"
    /\ dictLock' = DictLockRelease(dictLock, p)
    /\ dpc' = [dpc EXCEPT ![p] = "insert_write"]
    /\ UNCHANGED <<dict, dop, dfound, dentry, dret, inserted, dafter>>
    /\ UNCHANGED dictOthers

\* A variant of InsertStoredValue that stores a pointer other than the one
\* it was given (the address of a temporary instead of the pinned object).
InsertStoredOther(op) == CHOOSE v \in Ptrs : v # op.value

\* The pointer insert stores in a new entry: value.get_mut() as *mut _.
InsertStoredValue(op) == op.value

\* A variant of InsertWrites that writes the pointer whether or not the key
\* was found (the last insert wins).
InsertWritesAlways(found) == TRUE

\* insert, line 103: `if !found`, whether insert writes the pointer.
InsertWrites(found) == ~found

\* insert, lines 103-107: when the key was not found the pointer is written
\* through `entry`, which is NULL when the table was full.
insert_write(p) ==
    /\ dpc[p] = "insert_write"
    /\ IF ~InsertWrites(dfound[p])
       THEN /\ dpc' = [dpc EXCEPT ![p] = "idle"]
            /\ dret' = [dret EXCEPT ![p] = UnitResult]
            /\ UNCHANGED <<dict, inserted>>
       ELSE IF dentry[p] = NoEntry
            THEN \* a store through a null pointer: the process is killed
                 /\ dpc' = [dpc EXCEPT ![p] = "crashed"]
                 /\ UNCHANGED <<dict, dret, inserted>>
            ELSE /\ dict' = [dict EXCEPT ![dentry[p]] = WrittenEntry(InsertStoredValue(dop[p]))]
                 /\ inserted' = [inserted EXCEPT ![dentry[p]].returned = TRUE]
                 /\ dpc' = [dpc EXCEPT ![p] = "idle"]
                 /\ dret' = [dret EXCEPT ![p] = UnitResult]
    /\ UNCHANGED <<dictLock, dop, dfound, dentry, dafter>>
    /\ UNCHANGED dictOthers

\* internal_get, lines 111-116, called by get and get_mut: the registry lock
\* is taken in shared mode.
get_acquire(p, kind, name) ==
    /\ dpc[p] = "idle"
    /\ kind \in {"get", "get_mut"}
    /\ LWLockCanAcquire(dictLock, "shared")
    /\ dictLock' = [dictLock EXCEPT !.shared = @ \cup {p}]
    /\ dpc' = [dpc EXCEPT ![p] = "get_search"]
    /\ dop' = [dop EXCEPT ![p] = [kind |-> kind, name |-> name, value |-> NULL]]
    /\ dfound' = [dfound EXCEPT ![p] = FALSE]
    /\ dentry' = [dentry EXCEPT ![p] = NoEntry]
    /\ dret' = [dret EXCEPT ![p] = NoResult]
    /\ dafter' = [dafter EXCEPT ![p] =
                     /\ ~HeaplessFrom(name).panic
                     /\ inserted[HeaplessFrom(name).key].returned]
    /\ UNCHANGED <<dict, inserted>>
    /\ UNCHANGED dictOthers

\* internal_get, lines 117-130: the key is built and searched with HASH_FIND.
get_search(p) ==
    /\ dpc[p] = "get_search"
    /\ LET name == HeaplessFrom(dop[p].name) IN
       IF name.panic
       THEN /\ dpc' = [dpc EXCEPT ![p] = "panicked"]
            /\ UNCHANGED <<dfound, dentry>>
       ELSE LET r == HashFind(dict, name.key) IN
            /\ dfound' = [dfound EXCEPT ![p] = r.found]
            /\ dentry' = [dentry EXCEPT ![p] = r.entry]
            /\ dpc' = [dpc EXCEPT ![p] = "get_release"]
    /\ UNCHANGED <<dict, dictLock, dop, dret, inserted, dafter>>
    /\ UNCHANGED dictOthers

\* internal_get, lines 131-133.
get_release(p) ==
    /\ dpc[p] = "get_release"
    /\ dictLock' = DictLockRelease(dictLock, p)
    /\ dpc' = [dpc EXCEPT ![p] = "get_deref"]
    /\ UNCHANGED <<dict, dop, dfound, dentry, dret, inserted, dafter>>
    /\ UNCHANGED dictOthers

\* What get / get_mut hand back for internal_get's (found, value).
GetResult(found, value) ==
    IF found THEN [tag |-> "Some", value |-> value] ELSE [tag |-> "None", value |-> NULL]

\* What reading (*entry).value can do when entry is NULL (line 134): the read
\* is undefined behaviour. A build that performs the load faults; a build that
\* defers the load to its only use, the found branch, goes on to return None.
NullEntryReadOutcomes == {"crashed", "idle"}

\* internal_get line 134 and get / get_mut, lines 137-151: (*entry).value is
\* read whether or not the key was found.
get_deref(p) ==
    /\ dpc[p] = "get_deref"
    /\ IF dentry[p] = NoEntry
       THEN \E o \in NullEntryReadOutcomes :
                /\ dpc' = [dpc EXCEPT ![p] = o]
                /\ dret' = [dret EXCEPT ![p] =
                               IF o = "crashed" THEN NoResult ELSE GetResult(dfound[p], NULL)]
       ELSE /\ dpc' = [dpc EXCEPT ![p] = "idle"]
            /\ dret' = [dret EXCEPT ![p] = GetResult(dfound[p], dict[dentry[p]].value)]
    /\ UNCHANGED <<dict, dictLock, dop, dfound, dentry, inserted, dafter>>
    /\ UNCHANGED dictOthers

\* The panic of an overlong name unwinds to the caller's error handling, which
\* aborts the transaction; the abort releases every LWLock the process holds.
abort_after_panic(p) ==
    /\ dpc[p] = "panicked"
    /\ dictLock' = [excl |-> IF dictLock.excl = p THEN NoProc ELSE dictLock.excl,
                    shared |-> dictLock.shared \ {p}]
    /\ dpc' = [dpc EXCEPT ![p] = "idle"]
    /\ dret' = [dret EXCEPT ![p] = ErrorResult]
    /\ UNCHANGED <<dict, dop, dfound, dentry, inserted, dafter>>
    /\ UNCHANGED dictOthers

NextRegistry ==
    \/ \E p \in Procs, name \in Names, value \in Ptrs : insert_acquire(p, name, value)
    \/ \E p \in Procs : insert_search(p)
    \/ \E p \in Procs : insert_release(p)
    \/ \E p \in Procs : insert_write(p)
    \/ \E p \in Procs, kind \in {"get", "get_mut"}, name \in Names : get_acquire(p, kind, name)
    \/ \E p \in Procs : get_search(p)
    \/ \E p \in Procs : get_release(p)
    \/ \E p \in Procs : get_deref(p)
    \/ \E p \in Procs : abort_after_panic(p)

SpecRegistry == InitRegistry /\ [][NextRegistry]_vars

(***************************************************************************)
(* Preload reservations and the segment-mapping hook: src/src/ext/mod.rs   *)
(***************************************************************************)
\* The completion callbacks modules pass (Handle::call_closure::<T, F>).
Callbacks == {"cbA", "cbB"}

\* The modules (extensions with a pgextkit_init), and the module whose
\* pgextkit_init passes a callback.
Modules == {"modA", "modB"}
ModuleOf(cb) == IF cb = "cbA" THEN "modA" ELSE "modB"

\* The names under which the hook asks the segment for memory.
RegistryShmemName == [kind |-> "pgextkit_shared_dictionary", n |-> 0]
DynamicShmemName == [kind |-> "pgextkit_shmem", n |-> 0]

\* A variant of ReservationShmemName that reuses the name of the dynamic
\* region (the `shm_name` the loop's own `shm_name` shadows).
ReservationShmemNameShadowed(n) == DynamicShmemName

\* The name of a reservation's structure: a new random uuid for each (lines
\* 187-188), never the name of an earlier structure.
ReservationShmemName(n) == [kind |-> "uuid", n |-> n]

\* ShmemInitStruct(name, size, &found): the structure of that name when the
\* segment's index has one, else `size` bytes the segment has not handed out.
ShmemInitStruct(index, free, name, size) ==
    IF \E e \in index : e.name = name
    THEN [found |-> TRUE, index |-> index, free |-> free,
          ptr |-> (CHOOSE e \in index : e.name = name).base]
    ELSE [found |-> FALSE, free |-> free + size, ptr |-> free,
          index |-> index \cup {[name |-> name, base |-> free, size |-> size]}]

InitHook ==
    /\ RegistryInit
    /\ LockInit
    /\ LatchInit
    /\ DynInit
    /\ RestInit
    /\ hpc = "preload"
    /\ ALLOC_CALLBACKS = <<>>
    /\ shmemIndex = {}
    /\ shmemFree = 0
    /\ ALLOCATOR = [initialized |-> FALSE, base |-> 0, size |-> 0]
    /\ hookRuns = 0
    /\ uuids = 0
    /\ calls = <<>>
    /\ submitted = <<>>
    /\ BACKGROUND_WORKERS = <<>>
    /\ started = {}

\* static_handle::allocate_shmem, lines 491-502, called by a module's
\* pgextkit_init during _PG_init: the reservation is appended to the pending
\* list. The payload is the leaked box of the caller's closure (lib.rs:91), a
\* pointer no other reservation has.
static_allocate_shmem(cb, size) ==
    /\ hpc = "preload"
    /\ Len(submitted) < MaxReservations
    /\ LET r == [cb |-> cb, size |-> size, payload |-> Len(submitted) + 1] IN
        /\ ALLOC_CALLBACKS' = Append(ALLOC_CALLBACKS, r)
        /\ submitted' = Append(submitted, r)
    /\ UNCHANGED <<hpc, shmemIndex, shmemFree, ALLOCATOR, hookRuns, uuids, calls>>
    /\ UNCHANGED workerVars
    /\ UNCHANGED hookOthers

\* __pgx_private_shmem_hook, lines 164-170: SharedDictionary::default()
\* creates or finds the registry's hash table in the segment.
hook_registry ==
    /\ hpc \in {"preload", "mapped"}
    /\ hookRuns < MaxHookRuns
    /\ LET r == ShmemInitStruct(shmemIndex, shmemFree, RegistryShmemName, DictSize) IN
        /\ shmemIndex' = r.index
        /\ shmemFree' = r.free
    /\ hookRuns' = hookRuns + 1
    /\ hpc' = "hook_region"
    /\ UNCHANGED <<ALLOC_CALLBACKS, ALLOCATOR, uuids, calls, submitted>>
    /\ UNCHANGED workerVars
    /\ UNCHANGED hookOthers

\* __pgx_private_shmem_hook, lines 171-184: the dynamic region is created or
\* found, and the sub-allocator is initialized over it once.
hook_region ==
    /\ hpc = "hook_region"
    /\ LET r == ShmemInitStruct(shmemIndex, shmemFree, DynamicShmemName, ShmemSize) IN
        /\ shmemIndex' = r.index
        /\ shmemFree' = r.free
        /\ ALLOCATOR' = IF ~ALLOCATOR.initialized
                        THEN [initialized |-> TRUE, base |-> r.ptr, size |-> ShmemSize]
                        ELSE ALLOCATOR
    /\ hpc' = "hook_drain"
    /\ UNCHANGED <<ALLOC_CALLBACKS, hookRuns, uuids, calls, submitted>>
    /\ UNCHANGED workerVars
    /\ UNCHANGED hookOthers

\* static_handle::register_bgworker, lines 504-516, called by a module's
\* pgextkit_init during _PG_init: the worker is appended to BACKGROUND_WORKERS.
static_register_bgworker(m) ==
    /\ hpc = "preload"
    /\ Len(BACKGROUND_WORKERS) < MaxWorkers
    /\ BACKGROUND_WORKERS' = Append(BACKGROUND_WORKERS, m)
    /\ UNCHANGED <<hpc, ALLOC_CALLBACKS, shmemIndex, shmemFree, ALLOCATOR, hookRuns,
                   uuids, calls, submitted, started>>
    /\ UNCHANGED hookOthers

\* A variant of WorkersMayStart in which worker processes start at any time.
WorkersMayStartAnytime(h) == TRUE

\* The host starts background workers (pgextkit_master, registered at
\* lines 200-208, then database_worker) once its startup, which runs the
\* segment-mapping hook to its end, is done.
WorkersMayStart(h) == h = "mapped"

\* database_worker, workers.rs lines 91-120, run in a worker process started
\* by pgextkit_master: it registers the module's worker, which the host starts.
database_worker(i) ==
    /\ WorkersMayStart(hpc)
    /\ i \in 1..Len(BACKGROUND_WORKERS)
    /\ i \notin started
    /\ started' = started \cup {i}
    /\ UNCHANGED <<hpc, ALLOC_CALLBACKS, shmemIndex, shmemFree, ALLOCATOR, hookRuns,
                   uuids, calls, submitted, BACKGROUND_WORKERS>>
    /\ UNCHANGED hookOthers

\* A variant of NextPending that takes the reservation pushed last.
LastPending(q) == q[Len(q)]

\* ALLOC_CALLBACKS.drain(..) yields the reservations from the front.
NextPending(q) == Head(q)

\* A variant of Drained that leaves the reservation in the list (iterating
\* the list instead of draining it).
DrainedKept(q) == q

\* ALLOC_CALLBACKS.drain(..): the reservation the loop is given is removed
\* from the list.
Drained(q) == Tail(q)

\* __pgx_private_shmem_hook, lines 186-197: one turn of the loop. The next
\* pending reservation is taken off the list, memory of its size is carved
\* out under a new name, and its callback is called with it and its payload.
hook_callback ==
    /\ hpc = "hook_drain"
    /\ ALLOC_CALLBACKS # <<>>
    /\ LET req == NextPending(ALLOC_CALLBACKS)
           r == ShmemInitStruct(shmemIndex, shmemFree,
                                ReservationShmemName(uuids + 1), req.size)
       IN
        /\ shmemIndex' = r.index
        /\ shmemFree' = r.free
        /\ calls' = Append(calls, [cb |-> req.cb, payload |-> req.payload,
                                   mem |-> r.ptr, size |-> req.size])
    /\ uuids' = uuids + 1
    /\ ALLOC_CALLBACKS' = Drained(ALLOC_CALLBACKS)
    /\ UNCHANGED <<hpc, ALLOCATOR, hookRuns, submitted>>
    /\ UNCHANGED workerVars
    /\ UNCHANGED hookOthers

\* __pgx_private_shmem_hook, line 198: the list is drained and the hook returns.
hook_return ==
    /\ hpc = "hook_drain"
    /\ ALLOC_CALLBACKS = <<>>
    /\ hpc' = "mapped"
    /\ UNCHANGED <<ALLOC_CALLBACKS, shmemIndex, shmemFree, ALLOCATOR, hookRuns,
                   uuids, calls, submitted>>
    /\ UNCHANGED workerVars
    /\ UNCHANGED hookOthers

NextHook ==
    \/ \E cb \in Callbacks, size \in 0..MaxAllocSize : static_allocate_shmem(cb, size)
    \/ \E m \in Modules : static_register_bgworker(m)
    \/ hook_registry
    \/ hook_region
    \/ hook_callback
    \/ hook_return
    \/ \E i \in 1..MaxWorkers : database_worker(i)

SpecHook == InitHook /\ [][NextHook]_vars

(***************************************************************************)
(* allocate_shmem on a dynamic-load handle: src/src/ext/mod.rs             *)
(***************************************************************************)
\* The payload of the n-th dynamic call: the leaked box of its closure
\* (lib.rs:91), a pointer no other call or reservation has.
DynPayload(n) == MaxReservations + n

\* ALLOCATOR.alloc(layout) in a backend, lines 533-538. ALLOCATOR is a static
\* of the process: a backend works on the copy it got when it was forked,
\* after the hook initialized it over the dynamic region. The outcomes are a
\* pointer into the region with the bytes handed out so far, or a null
\* pointer when the region has no room. A layout of size zero is outside
\* GlobalAlloc's contract: either outcome.
AllocOutcomes(a, used, size) ==
    IF size = 0
    THEN {[mem |-> NullPtr, used |-> used], [mem |-> PtrTo(a.base + used), used |-> used]}
    ELSE IF used + size <= a.size
         THEN {[mem |-> PtrTo(a.base + used), used |-> used + size]}
         ELSE {[mem |-> NullPtr, used |-> used]}

\* dynamic_handle::allocate_shmem, lines 527-538, called by a module's
\* pgextkit_init inside load() (lines 385-429) in a backend: memory is taken
\* from the allocator.
dynamic_allocate_shmem(p, cb, size) ==
    /\ hpc = "mapped"
    /\ ALLOCATOR.initialized
    /\ ypc[p] = "idle"
    /\ dynCount < MaxDynamic
    /\ \E o \in AllocOutcomes(ALLOCATOR, backendUsed[p], size) :
          /\ yreq' = [yreq EXCEPT ![p] = [cb |-> cb, size |-> size,
                                          payload |-> DynPayload(dynCount + 1),
                                          mem |-> o.mem]]
          /\ backendUsed' = [backendUsed EXCEPT ![p] = o.used]
    /\ ypc' = [ypc EXCEPT ![p] = "allocated"]
    /\ dynCount' = dynCount + 1
    /\ UNCHANGED dynCalls
    /\ UNCHANGED <<hookVars, dynOthers>>

\* dynamic_handle::allocate_shmem, line 539: cb(alloc, payload), then the
\* call returns. Nothing is pushed on ALLOC_CALLBACKS.
dynamic_callback(p) ==
    /\ ypc[p] = "allocated"
    /\ dynCalls' = Append(dynCalls, [proc |-> p, cb |-> yreq[p].cb,
                                     payload |-> yreq[p].payload,
                                     mem |-> yreq[p].mem, size |-> yreq[p].size])
    /\ ypc' = [ypc EXCEPT ![p] = "idle"]
    /\ yreq' = [yreq EXCEPT ![p] = NoDynReq]
    /\ UNCHANGED <<backendUsed, dynCount>>
    /\ UNCHANGED <<hookVars, dynOthers>>

\* Preload, the hook, then backends that load modules dynamically.
NextDynamic ==
    \/ \E cb \in Callbacks, size \in 0..MaxAllocSize : static_allocate_shmem(cb, size)
    \/ hook_registry
    \/ hook_region
    \/ hook_callback
    \/ hook_return
    \/ \E p \in Procs, cb \in Callbacks, size \in 0..MaxAllocSize :
          dynamic_allocate_shmem(p, cb, size)
    \/ \E p \in Procs : dynamic_callback(p)

SpecDynamic == InitHook /\ [][NextDynamic]_vars

(***************************************************************************)
(* Module discovery, validation and initialization: src/src/ext/mod.rs     *)
(***************************************************************************)
InitModules ==
    /\ RegistryInit /\ HookIdle /\ LockInit /\ LatchInit /\ DynInit /\ SlotInit
    /\ FleetIdle /\ LkIdle
    /\ \E cands \in [Candidates -> Libraries] : ModStart(cands)

\* A variant of has_magic that does not look at the version.
HasMagicAnyVersion(l) ==
    IF ~l.loads THEN "Err"
    ELSE IF l.probe /\ l.magic_size = SizeOfMagic THEN "true" ELSE "false"

\* has_magic, lines 217-236: Err when the library cannot be opened; else
\* whether pgextkit_magic is found and the Magic it returns has the size of
\* Magic and the supported version.
has_magic(l) ==
    IF ~l.loads THEN "Err"
    ELSE IF l.probe /\ l.magic_size = SizeOfMagic /\ l.version = VERSION
         THEN "true" ELSE "false"

\* _PG_init, line 64, with extkit_extensions, lines 238-246: the loop comes
\* to the next control file, which the filter passes only when has_magic
\* gave Ok(true).
preload_filter(c) ==
    /\ preloadPos = c
    /\ modState[c] = "discovered"
    /\ IF has_magic(candidates[c]) = "true"
       THEN /\ modState' = [modState EXCEPT ![c] = "validated"]
            /\ UNCHANGED preloadPos
       ELSE /\ modState' = [modState EXCEPT ![c] = "skipped"]
            /\ preloadPos' = c + 1
    /\ UNCHANGED <<candidates, loadResult, initCalls, loads>>
    /\ UNCHANGED modOthers

\* _PG_init, lines 71-104, the loop's body: a library that cannot be opened
\* or has no pgextkit_init gets a warning; else pgextkit_init is called.
preload_init(c) ==
    /\ preloadPos = c
    /\ modState[c] = "validated"
    /\ IF candidates[c].loads /\ candidates[c].init
       THEN /\ modState' = [modState EXCEPT ![c] = "initialized"]
            /\ initCalls' = initCalls \cup {[cand |-> c, at |-> "preload"]}
       ELSE /\ modState' = [modState EXCEPT ![c] = "skipped"]
            /\ UNCHANGED initCalls
    /\ preloadPos' = c + 1
    /\ UNCHANGED <<candidates, loadResult, loads>>
    /\ UNCHANGED modOthers

\* load, lines 385-429, for a control file that was found: has_magic's Err
\* makes expect panic, which reaches the SQL caller as an error; Ok(false)
\* ends the call; after Ok(true) a library without pgextkit_init gets a
\* warning and any other has pgextkit_init called.
load(c) ==
    /\ preloadPos > MaxCandidates
    /\ loads < MaxLoads
    /\ loads' = loads + 1
    /\ IF has_magic(candidates[c]) = "Err"
       THEN /\ loadResult' = [loadResult EXCEPT ![c] = "error"]
            /\ UNCHANGED initCalls
       ELSE IF has_magic(candidates[c]) = "false"
            THEN /\ loadResult' = [loadResult EXCEPT ![c] = "skipped"]
                 /\ UNCHANGED initCalls
            ELSE IF ~candidates[c].init
                 THEN /\ loadResult' = [loadResult EXCEPT ![c] = "warned"]
                      /\ UNCHANGED initCalls
                 ELSE /\ loadResult' = [loadResult EXCEPT ![c] = "initialized"]
                      /\ initCalls' = initCalls \cup {[cand |-> c, at |-> "load"]}
    /\ UNCHANGED <<candidates, modState, preloadPos>>
    /\ UNCHANGED modOthers

NextModules ==
    \/ \E c \in Candidates : preload_filter(c)
    \/ \E c \in Candidates : preload_init(c)
    \/ \E c \in Candidates : load(c)

SpecModules == InitModules /\ [][NextModules]_vars

(***************************************************************************)
(* The master and per-database worker loops: src/src/ext/workers.rs        *)
(***************************************************************************)
\* The host is in _PG_init: no module has registered a worker yet, and the
\* master worker has not started.
InitFleet ==
    /\ RegistryInit /\ LockInit /\ LatchInit /\ DynInit /\ SlotInit /\ ModIdle
    /\ hpc = "preload"
    /\ ALLOC_CALLBACKS = <<>>
    /\ shmemIndex = {}
    /\ shmemFree = 0
    /\ ALLOCATOR = [initialized |-> FALSE, base |-> 0, size |-> 0]
    /\ hookRuns = 0
    /\ uuids = 0
    /\ calls = <<>>
    /\ submitted = <<>>
    /\ BACKGROUND_WORKERS = <<>>
    /\ started = {}
    /\ FleetIdle /\ LkIdle

\* The databases of a list.
Range(q) == {q[i] : i \in 1..Len(q)}

\* The databases of the catalog from d on, in catalog order, that are not
\* in a set.
RECURSIVE ScanFrom(_, _, _)
ScanFrom(d, catalog, existing) ==
    IF d > MaxDatabases THEN <<>>
    ELSE IF d \in catalog /\ d \notin existing
         THEN <<d>> \o ScanFrom(d + 1, catalog, existing)
         ELSE ScanFrom(d + 1, catalog, existing)

\* get_new_databases, lines 58-87: the connectable non-template databases
\* that are not in existing_databases.
get_new_databases(existing_databases) ==
    ScanFrom(1, pg_database, Range(existing_databases))

\* The catalog gets another database (CREATE DATABASE).
create_database(d) ==
    /\ d \in Databases \ pg_database
    /\ pg_database' = pg_database \cup {d}
    /\ UNCHANGED <<mpc, databases, new_dbs, next_db, bgw_extra, dbWorkers,
                   dbUnregistered, modWorkers, masterRestarts>>
    /\ UNCHANGED fleetOthers

\* master_worker, lines 21-22: the catalog is scanned; with nothing new the
\* master goes to wait on its latch.
master_scan ==
    /\ WorkersMayStart(hpc)
    /\ mpc = "scan"
    /\ new_dbs' = get_new_databases(databases)
    /\ next_db' = 1
    /\ mpc' = IF new_dbs' = <<>> THEN "waiting" ELSE "starting"
    /\ UNCHANGED <<pg_database, databases, bgw_extra, dbWorkers, dbUnregistered,
                   modWorkers, masterRestarts>>
    /\ UNCHANGED fleetOthers

\* What .load_dynamic().wait_for_startup() can return: the worker's pid, or
\* the status of a worker that could not be registered or did not come up.
StartupOutcomes == {"Ok", "Err"}

\* master_worker, lines 23-50, one turn of `for database in &new_dbs`: a
\* per-database worker is requested. Started, the loop goes on, and after the
\* last one the new databases are appended to `databases`; not started, the
\* master raises an error.
master_start(outcome) ==
    /\ mpc = "starting"
    /\ next_db <= Len(new_dbs)
    /\ LET database == new_dbs[next_db] IN
        IF outcome = "Ok"
        THEN /\ dbWorkers' = [dbWorkers EXCEPT ![database] = @ + 1]
             /\ dbUnregistered' = [dbUnregistered EXCEPT ![database] = @ + 1]
             /\ next_db' = next_db + 1
             /\ IF next_db = Len(new_dbs)
                THEN /\ databases' = databases \o new_dbs
                     /\ new_dbs' = <<>>
                     /\ mpc' = "waiting"
                ELSE UNCHANGED <<databases, new_dbs, mpc>>
        ELSE /\ mpc' = "failed"
             /\ UNCHANGED <<databases, new_dbs, next_db, dbWorkers, dbUnregistered>>
    /\ UNCHANGED <<pg_database, bgw_extra, modWorkers, masterRestarts>>
    /\ UNCHANGED fleetOthers

\* master_worker, lines 52-54: wait_latch returns true after the timeout or
\* a wake-up and the loop goes round, or false on SIGTERM and the master
\* returns.
master_wait(woken) ==
    /\ mpc = "waiting"
    /\ mpc' = IF woken THEN "scan" ELSE "exited"
    /\ UNCHANGED <<pg_database, databases, new_dbs, next_db, bgw_extra, dbWorkers,
                   dbUnregistered, modWorkers, masterRestarts>>
    /\ UNCHANGED fleetOthers

\* _PG_init, lines 200-208: the master is registered with
\* set_restart_time(0 ms), so the supervisor starts master_worker again
\* after it has ended with an error. Line 18 runs again: `databases` starts
\* empty.
master_restart ==
    /\ mpc = "failed"
    /\ masterRestarts < MaxMasterRestarts
    /\ masterRestarts' = masterRestarts + 1
    /\ databases' = <<>>
    /\ new_dbs' = <<>>
    /\ next_db' = 1
    /\ mpc' = "scan"
    /\ UNCHANGED <<pg_database, bgw_extra, dbWorkers, dbUnregistered, modWorkers>>
    /\ UNCHANGED fleetOthers

\* What a database's pg_extension holds for a module: no row, or the row's
\* extversion and the name of the role that owns the extension.
NotInstalled == [version |-> 0, username |-> 0]
ExtensionRows ==
    {NotInstalled} \cup [version : {1, 2}, username : Users]

\* Handle::make_static(name, version, ..), _PG_init lines 87-95: the version
\* of a module's handle is the one of its control file.
HandleVersion(m) == IF m = "modA" THEN 1 ELSE 2

\* A variant of SameVersion that takes an extension installed at any version.
AnyVersion(installed_version, version) == TRUE

\* database_worker, line 105: installed_version == version.
SameVersion(installed_version, version) == installed_version = version

\* database_worker, lines 103-105: whether the entry's module has a row in
\* the extensions read and the row's version is the recorded one.
Matches(i, extensions) ==
    /\ i <= Len(BACKGROUND_WORKERS)
    /\ extensions[BACKGROUND_WORKERS[i]] # NotInstalled
    /\ SameVersion(extensions[BACKGROUND_WORKERS[i]].version,
                   HandleVersion(BACKGROUND_WORKERS[i]))

\* database_worker, lines 91-113, in a started per-database worker: it reads
\* the database's extensions (get_extensions, ext/mod.rs lines 608-645), and
\* for every entry of BACKGROUND_WORKERS that matches sets bgw_extra to
\* "username@database" and registers the entry as a dynamic worker.
database_worker_register(database, extensions) ==
    /\ dbUnregistered[database] > 0
    /\ dbUnregistered' = [dbUnregistered EXCEPT ![database] = @ - 1]
    /\ bgw_extra' = [i \in 1..MaxWorkers |->
            IF Matches(i, extensions)
            THEN [username |-> extensions[BACKGROUND_WORKERS[i]].username,
                  database |-> database]
            ELSE NoExtra]
    /\ modWorkers' = [modWorkers EXCEPT ![database] =
            [i \in 1..MaxWorkers |->
                IF Matches(i, extensions) THEN @[i] + 1 ELSE @[i]]]
    /\ UNCHANGED <<pg_database, mpc, databases, new_dbs, next_db, dbWorkers,
                   masterRestarts>>
    /\ UNCHANGED fleetOthers

\* What a per-database worker can read as its database's extensions: the
\* rows of the modules recorded in BACKGROUND_WORKERS (the only names looked
\* up, line 104).
ExtensionsRead ==
    {x \in [Modules -> ExtensionRows] :
        \A m \in Modules \ Range(BACKGROUND_WORKERS) : x[m] = NotInstalled}

\* The first mapping of the segment, with no reservation pending.
first_hook ==
    \/ hpc = "preload" /\ hook_registry
    \/ hook_region
    \/ hook_return

\* Preload, in which modules register workers; the hook; then the worker
\* loops, while sessions create databases and extensions.
NextFleet ==
    \/ \E m \in Modules : static_register_bgworker(m)
    \/ first_hook
    \/ \E d \in Databases : create_database(d)
    \/ master_scan
    \/ \E outcome \in StartupOutcomes : master_start(outcome)
    \/ \E woken \in BOOLEAN : master_wait(woken)
    \/ master_restart
    \/ \E d \in Databases, extensions \in ExtensionsRead :
          database_worker_register(d, extensions)

SpecFleet == InitFleet /\ [][NextFleet]_vars

\* The worker loops when wait_for_startup never returns an error: the master
\* is not started again.
NextFleetStarted ==
    \/ \E m \in Modules : static_register_bgworker(m)
    \/ first_hook
    \/ \E d \in Databases : create_database(d)
    \/ master_scan
    \/ master_start("Ok")
    \/ \E woken \in BOOLEAN : master_wait(woken)
    \/ \E d \in Databases, extensions \in ExtensionsRead :
          database_worker_register(d, extensions)

SpecFleetStarted == InitFleet /\ [][NextFleetStarted]_vars

\* C24: for every database and every preload-registered module installed in
\* it at the registered version, the worker loops start at most one
\* per-database worker for the database and register each pending module
\* worker at most once for it, during the life of the host instance; and
\* once the master waits with the database in its list, exactly one.
C24_OneWorkerPerPairing ==
    \A d \in Databases :
        /\ dbWorkers[d] <= 1
        /\ \A i \in 1..Len(BACKGROUND_WORKERS) : modWorkers[d][i] <= 1
        /\ (d \in Range(databases) /\ mpc = "waiting") => dbWorkers[d] = 1

InitSlots == RegistryInit /\ HookIdle /\ LockInit /\ LatchInit /\ DynInit /\ RestInit

\* A variant of SlotOnHit in which a hit claims the next free slot again.
SlotOnHitFresh(m, db, c) == c

\* Entry::Occupied, line 34: the slot index is the one the mapping holds.
SlotOnHit(m, db, c) == m[db]

\* A finished call's result, and the first result for the identifier.
SlotReturn(p, db, slot) ==
    /\ sret' = [sret EXCEPT ![p] = [db |-> db, slot |-> slot]]
    /\ claimed' = IF claimed[db] = NoSlot THEN [claimed EXCEPT ![db] = slot] ELSE claimed

\* for_my_database, lines 24-27 and 34: mapping.entry(MyDatabaseId), db
\* being the caller's MyDatabaseId. On a hit the held slot, which
\* get_mut(..).unwrap() needs to exist, is returned; on a miss the call
\* goes on with the vacant entry.
for_my_database(p, db) ==
    /\ spc[p] = "idle"
    /\ slotCalls < MaxSlotCalls
    /\ slotCalls' = slotCalls + 1
    /\ IF db \in DOMAIN mapping
       THEN IF SlotOnHit(mapping, db, counter) < N
            THEN /\ SlotReturn(p, db, SlotOnHit(mapping, db, counter))
                 /\ sarg' = [sarg EXCEPT ![p] = NoSlotCall]
                 /\ UNCHANGED spc
            ELSE /\ spc' = [spc EXCEPT ![p] = "panicked"]
                 /\ sarg' = [sarg EXCEPT ![p] = [db |-> db, c |-> 0]]
                 /\ UNCHANGED <<sret, claimed>>
       ELSE /\ spc' = [spc EXCEPT ![p] = "vacant"]
            /\ sarg' = [sarg EXCEPT ![p] = [db |-> db, c |-> 0]]
            /\ UNCHANGED <<sret, claimed>>
    /\ UNCHANGED <<counter, mapping>>
    /\ UNCHANGED slotOthers

\* Line 29: entry.insert(*this.counter). The map takes the pair unless it
\* holds N already; the Err it returns then is dropped.
vacant_insert(p) ==
    /\ spc[p] = "vacant"
    /\ mapping' = IF sarg[p].db \in DOMAIN mapping \/ Cardinality(DOMAIN mapping) < N
                  THEN [db \in DOMAIN mapping \cup {sarg[p].db} |->
                           IF db = sarg[p].db THEN counter ELSE mapping[db]]
                  ELSE mapping
    /\ spc' = [spc EXCEPT ![p] = "inserted"]
    /\ UNCHANGED <<counter, sarg, sret, claimed, slotCalls>>
    /\ UNCHANGED slotOthers

\* Line 30: inner.get_mut(*this.counter).unwrap(), which panics when the
\* counter is no index of a slot.
vacant_get(p) ==
    /\ spc[p] = "inserted"
    /\ IF counter < N
       THEN /\ spc' = [spc EXCEPT ![p] = "got"]
            /\ sarg' = [sarg EXCEPT ![p].c = counter]
       ELSE /\ spc' = [spc EXCEPT ![p] = "panicked"]
            /\ UNCHANGED sarg
    /\ UNCHANGED <<counter, mapping, sret, claimed, slotCalls>>
    /\ UNCHANGED slotOthers

\* A variant of CounterAfter that leaves the counter as it was.
CounterAfterKept(c) == c

\* Line 31: *this.counter += 1.
CounterAfter(c) == c + 1

\* Lines 31-32: *this.counter += 1 and the slot is returned. The table has
\* no lock: the value incremented is the counter as it is now or as this
\* call read it before, which differ only when another process wrote it in
\* between.
vacant_return(p) ==
    /\ spc[p] = "got"
    /\ counter' \in {CounterAfter(counter), CounterAfter(sarg[p].c)}
    /\ SlotReturn(p, sarg[p].db, sarg[p].c)
    /\ spc' = [spc EXCEPT ![p] = "idle"]
    /\ sarg' = [sarg EXCEPT ![p] = NoSlotCall]
    /\ UNCHANGED <<mapping, slotCalls>>
    /\ UNCHANGED slotOthers

\* The process whose calls come one at a time.
Caller == 1

\* for_my_database called for a sequence of database identifiers, each call
\* after the one before has ended.
NextSlots ==
    \/ \E db \in Oids : for_my_database(Caller, db)
    \/ vacant_insert(Caller)
    \/ vacant_get(Caller)
    \/ vacant_return(Caller)

SpecSlots == InitSlots /\ [][NextSlots]_vars

\* pg_sys::MyDatabaseId, line 26: the databases served by a process and by
\* the processes that take its place after it. Processes that run at the
\* same time serve different databases.
MyDatabaseId(p) == {db \in Oids : db % 2 = p % 2}

\* for_my_database called by processes that share the table, each for the
\* database it serves.
NextSlotsShared ==
    \/ \E p \in Procs : \E db \in MyDatabaseId(p) : for_my_database(p, db)
    \/ \E p \in Procs : vacant_insert(p)
    \/ \E p \in Procs : vacant_get(p)
    \/ \E p \in Procs : vacant_return(p)

SpecSlotsShared == InitSlots /\ [][NextSlotsShared]_vars

(***************************************************************************)
(* The latch and its signal flags: src/src/latch.rs                        *)
(***************************************************************************)
InitLatch == RegistryInit /\ HookIdle /\ LockInit /\ LatchInit /\ DynInit /\ RestInit

RECURSIVE SumLen(_, _)
SumLen(f, ps) ==
    IF ps = {} THEN 0
    ELSE LET p == CHOOSE q \in ps : TRUE IN Len(f[p]) + SumLen(f, ps \ {p})
\* The wait handles made, and the Weak references pushed, so far.
NumHandles == SumLen(handles, Procs)
NumRegistered == SumLen(OWNED_LATCHES, Procs)

\* The live wait handles of a process.
LiveHandles(p) == {h \in 1..Len(handles[p]) : handles[p][h].alive}

\* SetLatch(latch): the wake bit is set.
SetLatch(ls, l) == [ls EXCEPT ![l].is_set = TRUE]

\* SetLatch on each latch of ls: a latch that was unset wakes the process that
\* owns it at that moment, if it sleeps in WaitLatch; a latch that was set
\* already, or has no owner, wakes nobody.
Notify(ls) ==
    [q \in Procs |->
        notified[q] \/ (wpc[q] = "waiting"
                         /\ \E l \in ls : ~latch[l].is_set /\ latch[l].owner_pid = q)]

\* What OwnLatch does on a latch that has an owner: elog(ERROR), which
\* abandons the call and hands control to the host's error recovery, or, in
\* later hosts, elog(PANIC). Neither returns to own().
OwnLatchOwnedOutcomes == {"errored", "crashed"}

\* SharedLatch::own, lines 27-30, with OwnedLatch::new, lines 66-78: OwnLatch
\* records the caller as the owner, then the wait handle is built with a new
\* Arc. OwnLatch does not return when the latch has an owner.
own(p, l) ==
    /\ wpc[p] = "idle"
    /\ NumHandles < MaxHandles
    /\ IF latch[l].owner_pid # NoProc
       THEN /\ \E o \in OwnLatchOwnedOutcomes : wpc' = [wpc EXCEPT ![p] = o]
            /\ UNCHANGED <<latch, handles>>
       ELSE /\ latch' = [latch EXCEPT ![l].owner_pid = p]
            /\ handles' = [handles EXCEPT ![p] = Append(@, [latch |-> l, alive |-> TRUE,
                                                                disowned |-> FALSE])]
            /\ UNCHANGED wpc
    /\ UNCHANGED <<OWNED_LATCHES, SIGNALS, sigHandlers, warg, notified, pmAlive,
                   wakePending, pendingSig>>
    /\ UNCHANGED latchOthers

\* SharedLatch::set_and_wake_up, lines 32-40, and OwnedLatch::set_and_wake_up,
\* lines 105-107: SetLatch, by any process.
set_and_wake_up(p, l) ==
    /\ wpc[p] = "idle"
    /\ latch' = SetLatch(latch, l)
    /\ notified' = Notify({l})
    /\ wakePending' = [wakePending EXCEPT ![l] = TRUE]
    /\ UNCHANGED <<handles, OWNED_LATCHES, SIGNALS, sigHandlers, wpc, warg,
                   pmAlive, pendingSig>>
    /\ UNCHANGED latchOthers

\* OwnedLatch::wait, lines 95-103, entering wait_latch and WaitLatch, lines
\* 80-87. WaitLatch refuses (an error) a latch the caller does not own; it
\* has yet to look at the wake bit.
wait_call(p, h, timeout) ==
    /\ wpc[p] = "idle"
    /\ h \in LiveHandles(p)
    /\ latch[handles[p][h].latch].owner_pid = p
    /\ wpc' = [wpc EXCEPT ![p] = "waiting"]
    /\ warg' = [warg EXCEPT ![p] = [h |-> h, timeout |-> timeout]]
    /\ notified' = [notified EXCEPT ![p] = TRUE]
    /\ UNCHANGED <<latch, handles, OWNED_LATCHES, SIGNALS, sigHandlers, pmAlive,
                   wakePending, pendingSig>>
    /\ UNCHANGED latchOthers

\* The latch a process waits on.
WaitedLatch(p) == handles[p][warg[p].h].latch

\* WaitLatch looks at the wake bit and finds it set.
LatchObserved(p) == notified[p] /\ latch[WaitedLatch(p)].is_set

\* The events on which WaitLatch returns to a waiting process, lines 97-101:
\* WL_LATCH_SET when it has the set latch to report; with a timeout,
\* WL_TIMEOUT once it has elapsed; WL_POSTMASTER_DEATH when the supervisor
\* is gone.
WakeEvents(p) ==
    (IF LatchObserved(p) THEN {"WL_LATCH_SET"} ELSE {})
    \cup (IF warg[p].timeout /\ ~LatchObserved(p) THEN {"WL_TIMEOUT"} ELSE {})
    \cup (IF ~pmAlive THEN {"WL_POSTMASTER_DEATH"} ELSE {})

\* wait_latch, lines 82-87: WaitLatch returns once one of its events has
\* occurred; a set latch is observed by it.
wait_return(p) ==
    /\ wpc[p] = "waiting"
    /\ WakeEvents(p) # {}
    /\ wakePending' = IF "WL_LATCH_SET" \in WakeEvents(p)
                      THEN [wakePending EXCEPT ![WaitedLatch(p)] = FALSE]
                      ELSE wakePending
    /\ wpc' = [wpc EXCEPT ![p] = "woken"]
    /\ notified' = [notified EXCEPT ![p] = FALSE]
    /\ UNCHANGED <<latch, handles, OWNED_LATCHES, SIGNALS, sigHandlers, warg, pmAlive, pendingSig>>
    /\ UNCHANGED latchOthers

\* wait_latch, lines 82-87: WaitLatch looks at the wake bit, finds it unset
\* and sleeps until SetLatch wakes the process.
wait_sleep(p) ==
    /\ wpc[p] = "waiting"
    /\ notified[p]
    /\ ~latch[WaitedLatch(p)].is_set
    /\ notified' = [notified EXCEPT ![p] = FALSE]
    /\ UNCHANGED <<latch, handles, OWNED_LATCHES, SIGNALS, sigHandlers, wpc, warg, pmAlive, wakePending, pendingSig>>
    /\ UNCHANGED latchOthers

\* wait_latch, lines 88-92: ResetLatch clears the wake bit, whatever the
\* event was, and wait returns.
wait_reset(p) ==
    /\ wpc[p] = "woken"
    /\ latch' = [latch EXCEPT ![WaitedLatch(p)].is_set = FALSE]
    /\ wpc' = [wpc EXCEPT ![p] = "idle"]
    /\ warg' = [warg EXCEPT ![p] = NoWait]
    /\ UNCHANGED <<handles, OWNED_LATCHES, SIGNALS, sigHandlers, notified, pmAlive,
                   wakePending, pendingSig>>
    /\ UNCHANGED latchOthers

\* The host's error recovery ends after the error OwnLatch raised: the
\* process goes on with its next command. own() has returned nothing.
own_aborted(p) ==
    /\ wpc[p] = "errored"
    /\ wpc' = [wpc EXCEPT ![p] = "idle"]
    /\ UNCHANGED <<latch, handles, OWNED_LATCHES, SIGNALS, sigHandlers, warg, notified,
                   pmAlive, wakePending, pendingSig>>
    /\ UNCHANGED latchOthers

\* OwnedLatch::disown, lines 109-111: DisownLatch clears the latch's owner.
\* The handle stays; that disown was called on it is history the code keeps
\* no record of.
disown(p, h) ==
    /\ wpc[p] = "idle"
    /\ h \in LiveHandles(p)
    /\ latch' = [latch EXCEPT ![handles[p][h].latch].owner_pid = NoProc]
    /\ handles' = [handles EXCEPT ![p][h].disowned = TRUE]
    /\ UNCHANGED <<OWNED_LATCHES, SIGNALS, sigHandlers, wpc, warg, notified,
                   pmAlive, wakePending, pendingSig>>
    /\ UNCHANGED latchOthers

\* Drop for OwnedLatch, lines 170-174: disown, then the handle's Arc is
\* dropped, after which no Weak reference to it upgrades.
drop_handle(p, h) ==
    /\ wpc[p] = "idle"
    /\ h \in LiveHandles(p)
    /\ latch' = [latch EXCEPT ![handles[p][h].latch].owner_pid = NoProc]
    /\ handles' = [handles EXCEPT ![p][h] = DroppedHandle]
    /\ UNCHANGED <<OWNED_LATCHES, SIGNALS, sigHandlers, wpc, warg, notified, pmAlive, wakePending, pendingSig>>
    /\ UNCHANGED latchOthers

\* The signal a flag stands for, and the flag a signal stands for.
SignalOf(f) == IF f = FLAG_SIGHUP THEN SIGHUP ELSE SIGTERM
FlagOf(signal) == IF signal = SIGHUP THEN FLAG_SIGHUP ELSE FLAG_SIGTERM

\* attach_signal_handlers, lines 113-133: a Weak reference to the handle is
\* pushed on the process's list and signal_handler is installed for the
\* signals of the requested flags.
attach_signal_handlers(p, h, wake) ==
    /\ wpc[p] = "idle"
    /\ h \in LiveHandles(p)
    /\ NumRegistered < MaxRegistered
    /\ OWNED_LATCHES' = [OWNED_LATCHES EXCEPT ![p] = Append(@, h)]
    /\ sigHandlers' = [sigHandlers EXCEPT ![p] = @ \cup {SignalOf(f) : f \in wake}]
    /\ UNCHANGED <<latch, handles, SIGNALS, wpc, warg, notified, pmAlive,
                   wakePending, pendingSig>>
    /\ UNCHANGED latchOthers

\* SignalWakeFlags::from_bits(n): the flags of n's bits, or None when n has
\* a bit that is no flag.
FromBits(n) ==
    IF n \in 0..(FLAG_SIGHUP + FLAG_SIGTERM)
    THEN [some |-> TRUE, bits |-> n] ELSE [some |-> FALSE, bits |-> 0]

\* A variant of RegisteredLive in which a Weak reference upgrades after its
\* handle was destroyed.
RegisteredEver(p) ==
    {handles[p][OWNED_LATCHES[p][i]].latch : i \in 1..Len(OWNED_LATCHES[p])}

\* The latches of the process's registered handles that still upgrade.
RegisteredLive(p) ==
    {handles[p][OWNED_LATCHES[p][i]].latch :
        i \in {j \in 1..Len(OWNED_LATCHES[p]) : handles[p][OWNED_LATCHES[p][j]].alive}}

\* signal_handler, lines 135-158, run by the host when a signal it is
\* installed for is delivered; it interrupts the process wherever it is. For
\* each registered handle that still upgrades: from_bits(signal).unwrap()
\* panics when the signal number is no combination of flag bits; else the
\* flag of that key, if SIGNALS has one, is stored true and the latch is set.
\* A panic ends the process before anything is stored or set.
deliver(p, signal) ==
    /\ wpc[p] # "crashed"
    /\ signal \in sigHandlers[p]
    /\ pendingSig' = [pendingSig EXCEPT ![p][FlagOf(signal)] = TRUE]
    /\ IF RegisteredLive(p) = {}
       THEN UNCHANGED <<SIGNALS, latch, wpc, notified, wakePending>>
       ELSE IF ~FromBits(signal).some
            THEN /\ wpc' = [wpc EXCEPT ![p] = "crashed"]
                 /\ UNCHANGED <<SIGNALS, latch, notified, wakePending>>
            ELSE /\ SIGNALS' = [SIGNALS EXCEPT ![p] =
                                   [f \in Flags |-> IF f = FromBits(signal).bits
                                                    THEN TRUE ELSE @[f]]]
                 /\ latch' = [l \in Latches |->
                                 IF l \in RegisteredLive(p)
                                 THEN SetLatch(latch, l)[l] ELSE latch[l]]
                 /\ notified' = Notify(RegisteredLive(p))
                 /\ wakePending' = [l \in Latches |->
                                       IF l \in RegisteredLive(p) THEN TRUE
                                       ELSE wakePending[l]]
                 /\ UNCHANGED wpc
    /\ UNCHANGED <<handles, OWNED_LATCHES, sigHandlers, warg, pmAlive>>
    /\ UNCHANGED latchOthers

\* signal_received, lines 160-168: the flag is swapped with false and its
\* old value, SIGNALS[p][wake], returned.
signal_received(p, h, wake) ==
    /\ wpc[p] = "idle"
    /\ h \in LiveHandles(p)
    /\ SIGNALS' = [SIGNALS EXCEPT ![p][wake] = FALSE]
    /\ pendingSig' = [pendingSig EXCEPT ![p][wake] = FALSE]
    /\ UNCHANGED <<latch, handles, OWNED_LATCHES, sigHandlers, wpc, warg, notified,
                   pmAlive, wakePending>>
    /\ UNCHANGED latchOthers

\* The supervisor process exits.
postmaster_death ==
    /\ pmAlive
    /\ pmAlive' = FALSE
    /\ UNCHANGED <<latch, handles, OWNED_LATCHES, SIGNALS, sigHandlers, wpc, warg,
                   notified, wakePending, pendingSig>>
    /\ UNCHANGED latchOthers

\* The wake protocol: owning, setting, waiting.
NextLatch ==
    \/ \E p \in Procs, l \in Latches : own(p, l)
    \/ \E p \in Procs : own_aborted(p)
    \/ \E p \in Procs, l \in Latches : set_and_wake_up(p, l)
    \/ \E p \in Procs, h \in 1..MaxHandles, t \in BOOLEAN : wait_call(p, h, t)
    \/ \E p \in Procs : wait_sleep(p)
    \/ \E p \in Procs : wait_return(p)
    \/ \E p \in Procs : wait_reset(p)
    \/ \E p \in Procs, h \in 1..MaxHandles : disown(p, h)
    \/ \E p \in Procs, h \in 1..MaxHandles : drop_handle(p, h)
    \/ postmaster_death

SpecLatch == InitLatch /\ [][NextLatch]_vars

\* own, while the signal flags are explored.
own_for_signals(p, l) == NumHandles < MaxSignalHandles /\ own(p, l)

\* The signal flags: owning, attaching handlers, deliveries, queries.
NextSignal ==
    \/ \E p \in Procs, l \in Latches : own_for_signals(p, l)
    \/ \E p \in Procs : own_aborted(p)
    \/ \E p \in Procs, h \in 1..MaxHandles : drop_handle(p, h)
    \/ \E p \in Procs, h \in 1..MaxHandles, wake \in SUBSET Flags :
          attach_signal_handlers(p, h, wake)
    \/ \E p \in Procs, signal \in Signals : deliver(p, signal)
    \/ \E p \in Procs, h \in 1..MaxHandles, f \in Flags : signal_received(p, h, f)

SpecSignal == InitLatch /\ [][NextSignal]_vars

\* The signal flags with handles disowned explicitly and kept.
NextSignalDisown ==
    \/ \E p \in Procs, l \in Latches : own_for_signals(p, l)
    \/ \E p \in Procs : own_aborted(p)
    \/ \E p \in Procs, h \in 1..MaxHandles : disown(p, h)
    \/ \E p \in Procs, h \in 1..MaxHandles, wake \in SUBSET Flags :
          attach_signal_handlers(p, h, wake)
    \/ \E p \in Procs, signal \in Signals : deliver(p, signal)
    \/ \E p \in Procs, h \in 1..MaxHandles, f \in Flags : signal_received(p, h, f)

SpecSignalDisown == InitLatch /\ [][NextSignalDisown]_vars

\* The host's scheduler lets a process run whose WaitLatch can return, or
\* has returned.
SpecLatchFair ==
    SpecLatch /\ \A p \in Procs : WF_vars(wait_return(p)) /\ WF_vars(wait_reset(p))

\* The example's worker, lines 67-70: latch.for_my_database() is the latch
\* of the worker's database, and the worker owns it once.
worker_own(p) ==
    /\ handles[p] = <<>>
    /\ p \in Latches
    /\ own_for_signals(p, p)

\* The example's worker, example/src/lib.rs lines 56-91: it owns its latch,
\* attaches the handler for SIGTERM and loops over wait, with a timeout, and
\* signal_received(SIGTERM), which ends the loop when it returns true. The
\* host delivers SIGTERM when it wants the worker to end.
NextWorker ==
    \/ \E p \in Procs : worker_own(p)
    \/ \E p \in Procs, h \in 1..MaxHandles : attach_signal_handlers(p, h, {FLAG_SIGTERM})
    \/ \E p \in Procs, h \in 1..MaxHandles : wait_call(p, h, TRUE)
    \/ \E p \in Procs : wait_sleep(p)
    \/ \E p \in Procs : wait_return(p)
    \/ \E p \in Procs : wait_reset(p)
    \/ \E p \in Procs : deliver(p, SIGTERM)
    \/ \E p \in Procs, h \in 1..MaxHandles : signal_received(p, h, FLAG_SIGTERM)

\* The worker runs: a wait that can return does, and each turn of the loop
\* calls signal_received after its wait.
SpecWorker ==
    /\ InitLatch
    /\ [][NextWorker]_vars
    /\ \A p \in Procs :
          /\ WF_vars(wait_return(p))
          /\ WF_vars(wait_reset(p))
          /\ SF_vars(\E h \in 1..MaxHandles : signal_received(p, h, FLAG_SIGTERM))

(***************************************************************************)
(* Claims about the shared registry.                                       *)
(***************************************************************************)
Lookups == {"get", "get_mut"}

\* C1. Round trip: a get or get_mut of a key that was issued after the
\* insert that created the key's entry had returned yields Some reference to
\* the very pointer that insert was given.
C1_RoundTrip ==
    \A p \in Procs :
        (dpc[p] = "idle" /\ dop[p].kind \in Lookups /\ dafter[p])
            => dret[p] = [tag |-> "Some",
                          value |-> inserted[HeaplessFrom(dop[p].name).key].value]

\* A lookup issued after the creating insert returned has finished with Some.
C1_Witness ==
    \E p \in Procs :
        /\ dpc[p] = "idle" /\ dop[p].kind \in Lookups /\ dafter[p]
        /\ dret[p].tag = "Some"
        /\ NumEntries(dict) < MAX_ATTACHMENTS

\* C2. A get or get_mut of a key that was never inserted returns None: the
\* call finishes, the process is not killed, and the result is None.
C2_AbsentLookupReturnsNone ==
    \A p \in Procs :
        (/\ dop[p].kind \in Lookups
         /\ dpc[p] \in {"idle", "crashed"}
         /\ ~HeaplessFrom(dop[p].name).panic
         /\ dict[HeaplessFrom(dop[p].name).key].state = "absent")
            => (dpc[p] = "idle" /\ dret[p].tag = "None")

\* C10. Capacity exhaustion is silent: the insert of a new key into a full
\* registry (hash_search found nothing and had no element left) returns
\* normally, and the key stays absent.
C10_SilentCapacityExhaustion ==
    \A p \in Procs :
        (/\ dop[p].kind = "insert"
         /\ dpc[p] \in {"idle", "crashed"}
         /\ ~dfound[p] /\ dentry[p] = NoEntry
         /\ NumEntries(dict) >= MAX_ATTACHMENTS)
            => (/\ dpc[p] = "idle" /\ dret[p] = UnitResult
                /\ dict[HeaplessFrom(dop[p].name).key].state = "absent")

\* C11. Duplicate keys are first-insert-wins: an entry holds the pointer of
\* the insert that created it, whatever later inserts of the same key were
\* given, and an insert that finds its key changes no entry of the registry.
C11_FirstInsertWins ==
    /\ [](\A k \in Keys : dict[k].state = "written" => dict[k].value = inserted[k].value)
    /\ [][\A p \in Procs : (dfound[p] /\ insert_write(p)) => dict' = dict]_vars

\* A second insert of a key, given another pointer than the first, has
\* returned, and the entry holds the first pointer.
C11_Witness ==
    \E p \in Procs :
        /\ dpc[p] = "idle" /\ dop[p].kind = "insert" /\ dfound[p]
        /\ dret[p] = UnitResult
        /\ dict[dop[p].name].state = "written"
        /\ dict[dop[p].name].value # dop[p].value

\* C25. Under any interleaving of an insert with lookups of the same key in
\* another process, a lookup that finds the key returns the pointer given to
\* the insert that created the entry: no lookup sees an entry whose key is
\* present and whose pointer is not written yet.
C25_LookupSeesWrittenPointer ==
    \A p \in Procs :
        (dpc[p] = "idle" /\ dop[p].kind \in Lookups /\ dret[p].tag = "Some")
            => /\ dret[p].value = inserted[HeaplessFrom(dop[p].name).key].value
               /\ dret[p].value # NULL

\* The registry lock as one process holds it.
HeldMode(p) ==
    IF dictLock.excl = p THEN "exclusive"
    ELSE IF p \in dictLock.shared THEN "shared" ELSE "none"

\* C28. Registry lock discipline: insert holds the registry lock in exclusive
\* mode and get / get_mut hold it in shared mode, for the hash lookup only
\* (an overlong name fails inside it); in every other position of a call, and
\* once the call has returned on any path (key found, key not found, table
\* full), the process holds no registry lock, also while the caller uses the
\* returned reference.
C28_LockDiscipline ==
    \A p \in Procs :
        /\ dpc[p] \in {"insert_search", "insert_release"} => HeldMode(p) = "exclusive"
        /\ dpc[p] \in {"get_search", "get_release"}
              => (HeldMode(p) = "shared" /\ dictLock.excl = NoProc)
        /\ dpc[p] = "panicked"
              => HeldMode(p) = (IF dop[p].kind = "insert" THEN "exclusive" ELSE "shared")
        /\ dpc[p] \in {"idle", "insert_write", "get_deref", "crashed"}
              => HeldMode(p) = "none"
        /\ dictLock.excl = p => dictLock.shared = {}

\* In a full registry a lookup has returned a reference and holds no lock,
\* while another process holds the lock in exclusive mode for its insert.
C28_Witness ==
    \E p, q \in Procs :
        /\ p # q
        /\ dpc[p] = "idle" /\ dop[p].kind \in Lookups /\ dret[p].tag = "Some"
        /\ HeldMode(p) = "none"
        /\ dictLock.excl = q
        /\ NumEntries(dict) >= MAX_ATTACHMENTS

\* C12. An insert with a name longer than the key's capacity does not fail:
\* it neither panics nor ends in an error, and the entry is stored under the
\* name truncated to the capacity.
C12_OverlongKeyTruncated ==
    \A p \in Procs :
        (dop[p].kind = "insert" /\ Len(dop[p].name) > KEY_CAPACITY
            /\ dpc[p] \notin {"insert_search"})
            => /\ dpc[p] # "panicked"
               /\ dret[p] # ErrorResult
               /\ dict[NameOfLen(KEY_CAPACITY)].state # "absent"

(***************************************************************************)
(* The named lock: src/src/lwlock.rs                                       *)
(***************************************************************************)
InitLock == RegistryInit /\ HookIdle /\ LockInit /\ LatchInit /\ DynInit /\ RestInit

\* A variant of LWLockAttemptLock that grants exclusive mode while shared
\* holders remain.
LWLockAttemptLockIgnoringShared(st, mode) == ~st.excl

\* LWLockAcquire(lock, mode) gets the lock when the mode is compatible with
\* the lock's state: shared mode needs no exclusive holder, exclusive mode
\* needs no holder at all. Until then the caller sleeps in it.
LWLockAttemptLock(st, mode) ==
    IF mode = "exclusive" THEN ~st.excl /\ st.shared = 0 ELSE ~st.excl

\* register, lines 58-62, with get_lock, lines 48-56: the first use of the
\* lock takes a new tranche id and initializes the LWLock; every use
\* registers the tranche's name in the calling process.
register(p, l) ==
    /\ IF lwInit[l]
       THEN UNCHANGED <<lwInit, lwTranche, trancheCounter, lwState>>
       ELSE /\ lwInit' = [lwInit EXCEPT ![l] = TRUE]
            /\ trancheCounter' = trancheCounter + 1
            /\ lwTranche' = [lwTranche EXCEPT ![l] = trancheCounter + 1]
            /\ lwState' = [lwState EXCEPT ![l] = [excl |-> FALSE, shared |-> 0]]
    /\ lwRegistered' = [lwRegistered EXCEPT ![p] =
                            @ \cup {[id |-> lwTranche'[l], name |-> LockName(l)]}]

\* share, lines 65-68: the lock is registered and LWLockAcquire is entered
\* in shared mode.
share_call(p, l) ==
    /\ lpc[p] = "idle"
    /\ guards[p][l].shared < MaxHold
    /\ register(p, l)
    /\ lpc' = [lpc EXCEPT ![p] = "shared"]
    /\ larg' = [larg EXCEPT ![p] = l]
    /\ UNCHANGED guards
    /\ UNCHANGED lockOthers

\* share, lines 68-74: LWLockAcquire returns and the share guard is built.
share_return(p) ==
    /\ lpc[p] = "shared"
    /\ LWLockAttemptLock(lwState[larg[p]], "shared")
    /\ lwState' = [lwState EXCEPT ![larg[p]].shared = @ + 1]
    /\ guards' = [guards EXCEPT ![p][larg[p]].shared = @ + 1]
    /\ lpc' = [lpc EXCEPT ![p] = "idle"]
    /\ larg' = [larg EXCEPT ![p] = NoLock]
    /\ UNCHANGED <<lwInit, lwTranche, trancheCounter, lwRegistered>>
    /\ UNCHANGED lockOthers

\* exclusive, lines 77-80: the lock is registered and LWLockAcquire is
\* entered in exclusive mode.
exclusive_call(p, l) ==
    /\ lpc[p] = "idle"
    /\ register(p, l)
    /\ lpc' = [lpc EXCEPT ![p] = "exclusive"]
    /\ larg' = [larg EXCEPT ![p] = l]
    /\ UNCHANGED guards
    /\ UNCHANGED lockOthers

\* exclusive, lines 80-86: LWLockAcquire returns and the exclusive guard is built.
exclusive_return(p) ==
    /\ lpc[p] = "exclusive"
    /\ LWLockAttemptLock(lwState[larg[p]], "exclusive")
    /\ lwState' = [lwState EXCEPT ![larg[p]].excl = TRUE]
    /\ guards' = [guards EXCEPT ![p][larg[p]].excl = @ + 1]
    /\ lpc' = [lpc EXCEPT ![p] = "idle"]
    /\ larg' = [larg EXCEPT ![p] = NoLock]
    /\ UNCHANGED <<lwInit, lwTranche, trancheCounter, lwRegistered>>
    /\ UNCHANGED lockOthers

\* A variant of LWLockRelease that leaves the lock as it was.
LWLockReleaseKept(st, mode) == st

\* LWLockRelease(lock) gives up one hold of the lock in the mode it was
\* taken in.
LWLockRelease(st, mode) ==
    IF mode = "exclusive" THEN [st EXCEPT !.excl = FALSE]
                          ELSE [st EXCEPT !.shared = @ - 1]

\* Drop for PgDynamicLwLockShareGuard, lines 95-101: LWLockRelease.
drop_share_guard(p, l) ==
    /\ lpc[p] = "idle"
    /\ guards[p][l].shared > 0
    /\ guards' = [guards EXCEPT ![p][l].shared = @ - 1]
    /\ lwState' = [lwState EXCEPT ![l] = LWLockRelease(@, "shared")]
    /\ UNCHANGED <<lwInit, lwTranche, trancheCounter, lwRegistered, lpc, larg>>
    /\ UNCHANGED lockOthers

\* Drop for PgDynamicLwLockExclusiveGuard, lines 130-136: LWLockRelease.
drop_exclusive_guard(p, l) ==
    /\ lpc[p] = "idle"
    /\ guards[p][l].excl > 0
    /\ guards' = [guards EXCEPT ![p][l].excl = @ - 1]
    /\ lwState' = [lwState EXCEPT ![l] = LWLockRelease(@, "exclusive")]
    /\ UNCHANGED <<lwInit, lwTranche, trancheCounter, lwRegistered, lpc, larg>>
    /\ UNCHANGED lockOthers

NextLock ==
    \/ \E p \in Procs, l \in Locks : share_call(p, l)
    \/ \E p \in Procs : share_return(p)
    \/ \E p \in Procs, l \in Locks : exclusive_call(p, l)
    \/ \E p \in Procs : exclusive_return(p)
    \/ \E p \in Procs, l \in Locks : drop_share_guard(p, l)
    \/ \E p \in Procs, l \in Locks : drop_exclusive_guard(p, l)

SpecLock == InitLock /\ [][NextLock]_vars

(***************************************************************************)
(* Claims about the preload reservations and the segment-mapping hook.     *)
(***************************************************************************)
\* The invocations of the callback of the reservation with this payload.
CallsOf(payload) == {i \in 1..Len(calls) : calls[i].payload = payload}
Pending(payload) ==
    \E i \in 1..Len(ALLOC_CALLBACKS) : ALLOC_CALLBACKS[i].payload = payload

\* C3. Every reservation made before the segment is mapped has its callback
\* invoked exactly once by the hook, with its own payload; a reservation is
\* either still pending or invoked, never both, and a later run of the hook
\* does not invoke it again.
C3_ExactlyOnce ==
    \A i \in 1..Len(submitted) :
        LET r == submitted[i] IN
        /\ Cardinality(CallsOf(r.payload)) <= 1
        /\ \A c \in CallsOf(r.payload) : calls[c].cb = r.cb
        /\ Pending(r.payload) <=> CallsOf(r.payload) = {}
        /\ hpc = "mapped" => Cardinality(CallsOf(r.payload)) = 1

\* The hook has run twice over at least two reservations.
C3_Witness ==
    /\ hpc = "mapped" /\ hookRuns = 2
    /\ Len(submitted) >= 2
    /\ Len(calls) = Len(submitted)

\* Two byte ranges [a, a + m) and [b, b + n) share a byte.
Overlap(a, m, b, n) == m > 0 /\ n > 0 /\ a < b + n /\ b < a + m

\* C4. The regions passed to the callbacks of distinct reservations are
\* pairwise disjoint, each is a structure of the segment of the size the
\* reservation asked for, and none overlaps the registry's region or the
\* dynamic region.
C4_DisjointRegions ==
    /\ \A i, j \in 1..Len(calls) :
          i # j => ~Overlap(calls[i].mem, calls[i].size, calls[j].mem, calls[j].size)
    /\ \A i \in 1..Len(calls) :
          /\ \E k \in 1..Len(submitted) :
                /\ submitted[k].payload = calls[i].payload
                /\ submitted[k].size = calls[i].size
          /\ \E e \in shmemIndex :
                /\ e.name.kind = "uuid"
                /\ e.base = calls[i].mem /\ e.size = calls[i].size
          /\ \A e \in shmemIndex :
                e.name \in {RegistryShmemName, DynamicShmemName}
                    => ~Overlap(calls[i].mem, calls[i].size, e.base, e.size)

\* Three callbacks have been given non-empty regions.
C4_Witness ==
    /\ Len(calls) >= 3
    /\ \A i \in 1..Len(calls) : calls[i].size > 0

\* C13. No callback of a preload reservation is invoked during the preload
\* phase, before the hook has mapped the segment; and when a worker process
\* registered by a module has started, every reservation of that module has
\* had its callback invoked.
C13_AfterMapBeforeWorkers ==
    /\ hpc = "preload" => calls = <<>>
    /\ calls # <<>> => \E e \in shmemIndex : e.name = DynamicShmemName
    /\ \A w \in started :
          \A i \in 1..Len(submitted) :
              ModuleOf(submitted[i].cb) = BACKGROUND_WORKERS[w]
                  => CallsOf(submitted[i].payload) # {}

\* A worker of a module that made a reservation at preload has started.
C13_Witness ==
    \E w \in started :
        \E i \in 1..Len(submitted) :
            /\ ModuleOf(submitted[i].cb) = BACKGROUND_WORKERS[w]
            /\ CallsOf(submitted[i].payload) # {}

\* C14. The hook invokes the callbacks in the order in which the reservations
\* were submitted: the n-th invocation is that of the n-th reservation.
C14_FifoOrder ==
    /\ Len(calls) <= Len(submitted)
    /\ \A i \in 1..Len(calls) :
          /\ calls[i].payload = submitted[i].payload
          /\ calls[i].cb = submitted[i].cb

\* The callbacks of three reservations made by two modules have been invoked.
C14_Witness ==
    /\ Len(calls) >= 3
    /\ \E i, j \in 1..Len(calls) : calls[i].cb # calls[j].cb

\* The invocations of the callback of the dynamic call with a payload.
DynCallsOf(payload) == {i \in 1..Len(dynCalls) : dynCalls[i].payload = payload}

\* C15. allocate_shmem on a dynamic-load handle invokes the callback exactly
\* once and before it returns: a call has no invocation while it is in
\* progress and exactly one once it has returned; the memory passed, when the
\* size is not zero, lies in the dynamic region; and nothing is appended to
\* the pending list.
C15_DynamicSynchronous ==
    /\ \A n \in 1..dynCount :
          /\ Cardinality(DynCallsOf(DynPayload(n))) <= 1
          /\ DynCallsOf(DynPayload(n)) = {}
                <=> \E p \in Procs : ypc[p] = "allocated" /\ yreq[p].payload = DynPayload(n)
    /\ \A i \in 1..Len(dynCalls) :
          dynCalls[i].size > 0 =>
              /\ ~dynCalls[i].mem.null
              /\ ALLOCATOR.base <= dynCalls[i].mem.addr
              /\ dynCalls[i].mem.addr + dynCalls[i].size <= ALLOCATOR.base + ALLOCATOR.size
    /\ \A i \in 1..Len(ALLOC_CALLBACKS) : ALLOC_CALLBACKS[i].payload <= MaxReservations

\* The bytes of the block a dynamic call's callback was given.
BlockOf(call) ==
    IF call.mem.null THEN {} ELSE call.mem.addr .. (call.mem.addr + call.size - 1)

\* C26. The blocks handed out by dynamic-load allocations never overlap,
\* also when the allocations are made by different backends attached to the
\* same segment.
C26_DynamicBlocksDisjoint ==
    \A i, j \in 1..Len(dynCalls) :
        i # j => BlockOf(dynCalls[i]) \cap BlockOf(dynCalls[j]) = {}

\* The bytes of the dynamic region the sub-allocator was initialized over.
DynamicRegion == ALLOCATOR.base .. (ALLOCATOR.base + ALLOCATOR.size - 1)

\* C35. allocate_shmem on a dynamic-load handle never calls the callback
\* with a null pointer or with memory outside the dynamic region: a callback
\* called for a size the region could not satisfy is called with neither.
C35_DynamicCallbackNeverOnInvalid ==
    \A p \in Procs :
        (ypc[p] = "idle" /\ \E i \in 1..Len(dynCalls) : dynCalls[i].proc = p)
            => \A i \in 1..Len(dynCalls) :
                  (dynCalls[i].proc = p /\ dynCalls[i].size > 0)
                      => /\ dynCalls[i].mem # NullPtr
                         /\ BlockOf(dynCalls[i]) \subseteq DynamicRegion

(***************************************************************************)
(* Claims about the named lock.                                            *)
(***************************************************************************)
\* The processes with a live guard of a mode on a lock.
ExclusiveHolders(l) == {p \in Procs : guards[p][l].excl > 0}
SharedHolders(l) == {p \in Procs : guards[p][l].shared > 0}

RECURSIVE LiveGuards(_, _, _)
LiveGuards(l, mode, ps) ==
    IF ps = {} THEN 0
    ELSE LET p == CHOOSE q \in ps : TRUE
         IN  (IF mode = "exclusive" THEN guards[p][l].excl ELSE guards[p][l].shared)
             + LiveGuards(l, mode, ps \ {p})

\* C16. Every guard releases the lock exactly once when it is dropped: the
\* lock is held in shared mode exactly as many times as shared guards are
\* live, and in exclusive mode exactly when an exclusive guard is live, so a
\* process that has dropped all its guards holds the lock in no mode.
C16_GuardReleasesOnce ==
    \A l \in Locks :
        lwInit[l] =>
            /\ lwState[l].shared = LiveGuards(l, "shared", Procs)
            /\ lwState[l].excl <=> LiveGuards(l, "exclusive", Procs) = 1
            /\ LiveGuards(l, "exclusive", Procs) <= 1

\* Both kinds of guard were taken on a lock and every one has been dropped:
\* the lock is free, and the other lock is held through two live guards.
C16_Witness ==
    \E l, k \in Locks :
        /\ l # k
        /\ lwInit[l]
        /\ \A p \in Procs : lpc[p] = "idle" /\ guards[p][l] = [excl |-> 0, shared |-> 0]
        /\ lwState[l] = [excl |-> FALSE, shared |-> 0]
        /\ LiveGuards(k, "shared", Procs) = 2

\* C17. Constructing a lock by name is idempotent: two locks constructed
\* with the same name use one tranche and one lock state, so a holder of an
\* exclusive guard obtained through one excludes every holder obtained
\* through the other.
C17_SameNameSharesState ==
    \A l, k \in Locks :
        (l # k /\ LockName(l) = LockName(k)) =>
            /\ (lwInit[l] /\ lwInit[k]) => lwTranche[l] = lwTranche[k]
            /\ ExclusiveHolders(l) # {}
                  => ExclusiveHolders(k) \cup SharedHolders(k) = {}

(***************************************************************************)
(* Claims about the latch.                                                 *)
(***************************************************************************)
\* C6: once the wake bit of a latch is set, a wait(None) of its owner that is
\* in progress eventually returns: the owner does not stay blocked.
C6_SetWakesWaiter ==
    \A p \in Procs :
        (wpc[p] = "waiting" /\ ~warg[p].timeout
            /\ latch[WaitedLatch(p)].owner_pid = p /\ latch[WaitedLatch(p)].is_set)
        ~> (wpc[p] = "idle")

\* C7: wait clears the wake bit atomically with observing its wake reason, so
\* a set_and_wake_up that no wait has observed yet is never erased: the wake
\* bit stays set for the owner's next wait.
C7_WakeNotErased == \A l \in Latches : wakePending[l] => latch[l].is_set

\* C8: a delivery of SIGHUP or SIGTERM to a process that attached a handler
\* for it marks the signal's flag and sets every registered latch of the
\* process whose handle is alive.
C8_SignalSetsLatchesAndFlag ==
    [][\A p \in Procs, signal \in Signals :
          deliver(p, signal) =>
              /\ SIGNALS'[p][FlagOf(signal)]
              /\ \A l \in RegisteredLive(p) : latch'[l].is_set]_vars

\* C9: signal_received is a test-and-clear: a flag is marked exactly when a
\* delivery of its signal has not been followed by a signal_received of it,
\* so that signal_received, which returns the flag and clears it, returns
\* true for the first call after a delivery and false otherwise.
C9_TestAndClear ==
    \A p \in Procs, f \in Flags : SIGNALS[p][f] <=> pendingSig[p][f]

\* C31. Repeated deliveries coalesce: whether a signal is delivered once or
\* several times to a process with a registered handle before the flag is
\* queried, the process goes on with the flag marked, neither more nor less;
\* the signal_received that follows returns the mark and clears it, so the
\* call after it returns false.
C31_DeliveriesCoalesce ==
    [][/\ \A p \in Procs, signal \in Signals :
            (deliver(p, signal) /\ RegisteredLive(p) # {})
                => /\ wpc'[p] = wpc[p]
                   /\ SIGNALS'[p] = [SIGNALS[p] EXCEPT ![FlagOf(signal)] = TRUE]
       /\ \A p \in Procs, h \in 1..MaxHandles, f \in Flags :
            signal_received(p, h, f)
                => SIGNALS'[p] = [SIGNALS[p] EXCEPT ![f] = FALSE]]_vars

\* C36. The signal flags are process-wide, not per latch: one delivery to
\* a process with several registered latches sets every one of them and
\* marks the signal's flag of the process once; a signal_received on any
\* handle of the process clears that one flag, so a call on another handle
\* then reads false, and no other process's flags change.
C36_FlagsProcessWide ==
    [][/\ \A p \in Procs, signal \in Signals :
            (deliver(p, signal) /\ Cardinality(RegisteredLive(p)) >= 2)
                => /\ \A l \in RegisteredLive(p) : latch'[l].is_set
                   /\ SIGNALS'[p][FlagOf(signal)]
                   /\ \A q \in Procs \ {p} : SIGNALS'[q] = SIGNALS[q]
       /\ \A p \in Procs, h \in 1..MaxHandles, f \in Flags :
            (signal_received(p, h, f) /\ Cardinality(LiveHandles(p)) >= 2)
                => /\ ~SIGNALS'[p][f]
                   /\ \A q \in Procs \ {p} : SIGNALS'[q] = SIGNALS[q]]_vars

\* C18. A latch is owned by at most one process at any time, and after
\* own() has succeeded for a process no other process is its owner until the
\* handle own() returned is disowned or destroyed: while a process has a live
\* handle on which disown was never called, no other process owns the
\* handle's latch.
C18_SingleOwner ==
    \A p \in Procs : \A h \in LiveHandles(p) :
        ~handles[p][h].disowned
            => latch[handles[p][h].latch].owner_pid \in {p, NoProc}

\* C29. Releasing ownership through one process's wait handle never clears
\* ownership held by another process: a disown() or the destruction of a
\* handle of P leaves every latch that another process owns with its owner,
\* also after P disowned explicitly and Q then owned the latch.
C29_DisownKeepsOtherOwner ==
    [][\A p \in Procs, h \in 1..MaxHandles :
          (disown(p, h) \/ drop_handle(p, h))
              => \A l \in Latches :
                    latch[l].owner_pid \notin {NoProc, p}
                        => latch'[l].owner_pid = latch[l].owner_pid]_vars

\* C19. own() on a latch that another process owns returns None: the call
\* returns to its caller, which is neither in error recovery nor crashed,
\* no wait handle is made, and the latch's owner is unchanged.
C19_OwnOwnedReturnsNone ==
    [][\A p \in Procs, l \in Latches :
          (latch[l].owner_pid \notin {NoProc, p} /\ own(p, l))
              => /\ wpc'[p] = "idle"
                 /\ handles' = handles
                 /\ latch' = latch]_vars

\* The registrations of a process whose handle has been destroyed, and the
\* latches on which it has a registered handle that has not.
DestroyedRegistrations(p) ==
    {i \in 1..Len(OWNED_LATCHES[p]) : ~handles[p][OWNED_LATCHES[p][i]].alive}
LatchesStillRegistered(p) ==
    {handles[p][OWNED_LATCHES[p][i]].latch :
        i \in 1..Len(OWNED_LATCHES[p]) \ DestroyedRegistrations(p)}

\* C20. After a wait handle has been destroyed, a signal delivered to its
\* process neither sets the handle's latch nor marks a flag on its behalf:
\* a delivery sets no latch but those of registered handles that still
\* exist, and when none exists it changes no flag and no latch and the
\* handler runs to its end.
C20_DestroyedHandleNotSignaled ==
    [][\A p \in Procs, signal \in Signals :
          (DestroyedRegistrations(p) # {} /\ deliver(p, signal)) =>
              /\ \A l \in Latches \ LatchesStillRegistered(p) : latch'[l] = latch[l]
              /\ LatchesStillRegistered(p) = {}
                    => /\ SIGNALS' = SIGNALS
                       /\ wpc' = wpc
                       /\ notified' = notified]_vars

\* Every handle a process registered has been destroyed; the signal was
\* delivered to it afterwards, and no flag is marked and no latch set.
C20_Witness ==
    \E p \in Procs :
        /\ DestroyedRegistrations(p) # {}
        /\ LatchesStillRegistered(p) = {}
        /\ pendingSig[p][FLAG_SIGHUP]
        /\ ~SIGNALS[p][FLAG_SIGHUP]
        /\ wpc[p] = "idle"
        /\ \A l \in Latches : ~latch[l].is_set

\* The latches on which a process has registered handles that exist, all of
\* them disowned explicitly.
DisownedRegistered(p) ==
    {l \in Latches :
        LET regs == {i \in 1..Len(OWNED_LATCHES[p]) :
                        /\ handles[p][OWNED_LATCHES[p][i]].alive
                        /\ handles[p][OWNED_LATCHES[p][i]].latch = l} IN
        /\ regs # {}
        /\ \A i \in regs : handles[p][OWNED_LATCHES[p][i]].disowned}

\* C30. After the owner has called disown() on a latch that was registered
\* with attach_signal_handlers, and while its handle exists, a signal
\* delivered to the process does not set that latch.
C30_DisownedLatchNotSignaled ==
    [][\A p \in Procs, signal \in Signals :
          deliver(p, signal)
              => \A l \in DisownedRegistered(p) : latch'[l].is_set = latch[l].is_set]_vars

(***************************************************************************)
(* Claims about the per-database slot table.                               *)
(***************************************************************************)
\* The database identifiers whose calls have returned a slot.
SeenOids == {db \in Oids : claimed[db] # NoSlot}

\* C21. Per-database slot lookup, for calls made one at a time with at most
\* N distinct database identifiers: a call returns the slot the first call
\* with its identifier returned, distinct identifiers have distinct slots,
\* and the number of claimed slots, which the counter holds between calls,
\* is the number of distinct identifiers seen.
C21_SlotPerDatabase ==
    /\ \A p \in Procs : sret[p].db # NoOid => sret[p].slot = claimed[sret[p].db]
    /\ \A a, b \in SeenOids : a # b => claimed[a] # claimed[b]
    /\ (\A p \in Procs : spc[p] = "idle")
          => /\ counter = Cardinality(SeenOids)
             /\ Cardinality({claimed[db] : db \in SeenOids}) = Cardinality(SeenOids)
             /\ \A db \in SeenOids : mapping[db] = claimed[db]

\* The sequence [A, B, A] and more: two identifiers have their slots, and a
\* fourth call has returned the slot of one of them again.
C21_Witness ==
    /\ slotCalls = MaxSlotCalls
    /\ Cardinality(SeenOids) = 2
    /\ spc[Caller] = "idle"
    /\ counter = 2

\* The slots the table has given to identifiers.
MappedSlots == {mapping[db] : db \in DOMAIN mapping}

\* C32. Slot table invariant, for calls made one at a time: distinct
\* identifiers are mapped to distinct slots; the slots are handed out in
\* first-seen order 0, 1, 2, ..., a new identifier getting the index that
\* the count of mapped identifiers was; between calls the next-free counter
\* equals the number of mapped identifiers; the counter never exceeds N; and
\* no mapping is ever changed or removed.
C32_SlotTableInvariant ==
    /\ [](\A a, b \in DOMAIN mapping : a # b => mapping[a] # mapping[b])
    /\ [](MappedSlots = 0..(Cardinality(DOMAIN mapping) - 1))
    /\ [](spc[Caller] = "idle" => counter = Cardinality(DOMAIN mapping))
    /\ [](counter <= N /\ Cardinality(DOMAIN mapping) <= N)
    /\ [][/\ \A db \in DOMAIN mapping :
                db \in DOMAIN mapping' /\ mapping'[db] = mapping[db]
          /\ \A db \in DOMAIN mapping' \ DOMAIN mapping :
                mapping'[db] = Cardinality(DOMAIN mapping)
          /\ counter' \in {counter, counter + 1}]_vars

\* N identifiers are mapped, in the order they came, the counter is N, and
\* a later call with a mapped identifier has returned.
C32_Witness ==
    /\ Cardinality(DOMAIN mapping) = N
    /\ counter = N
    /\ spc[Caller] = "idle"
    /\ slotCalls > N
    /\ sret[Caller].db \in DOMAIN mapping
    /\ sret[Caller].slot = mapping[sret[Caller].db]

\* C27. Two processes that serve different databases and call
\* for_my_database concurrently never obtain the same slot, and once no call
\* is in progress the counter equals the number of mapped identifiers.
C27_ConcurrentDistinctSlots ==
    /\ \A p, q \in Procs :
          (p # q /\ sret[p].db # NoOid /\ sret[q].db # NoOid /\ sret[p].db # sret[q].db)
              => sret[p].slot # sret[q].slot
    /\ (\A p \in Procs : spc[p] = "idle") => counter = Cardinality(DOMAIN mapping)

(***************************************************************************)
(* Claims about module discovery and loading.                              *)
(***************************************************************************)
\* The library's signature probe is found and returns the expected
\* descriptor size and the supported protocol version.
ProbeMatches(l) ==
    l.loads /\ l.probe /\ l.magic_size = SizeOfMagic /\ l.version = VERSION
\* The library can be opened and its probe is absent or mismatched.
ProbeFails(l) == l.loads /\ ~ProbeMatches(l)

\* C22. A module goes Discovered -> Validated -> Initialized: pgextkit_init
\* is called only for a module whose probe was found and matched, and at
\* preload only from Validated; a module whose probe is absent or mismatched
\* is skipped without an error, at preload and at load(), and the preload
\* loop goes on to the modules after it.
C22_ValidatedBeforeInit ==
    /\ [](\A call \in initCalls : ProbeMatches(candidates[call.cand]))
    /\ [](\A c \in Candidates :
            /\ modState[c] \in {"validated", "initialized"}
                  => ProbeMatches(candidates[c])
            /\ ProbeFails(candidates[c])
                  => /\ modState[c] \in {"discovered", "skipped"}
                     /\ loadResult[c] \in {"none", "skipped"}
                     /\ preloadPos > c => modState[c] = "skipped"
            /\ preloadPos > c => modState[c] \in {"skipped", "initialized"})
    /\ [][\A c \in Candidates :
            /\ (modState'[c] = "initialized" /\ modState[c] # "initialized")
                  => modState[c] = "validated"
            /\ (modState'[c] = "validated" /\ modState[c] # "validated")
                  => modState[c] = "discovered"
            /\ (ProbeFails(candidates[c]) /\ preloadPos = c /\ preloadPos' # c)
                  => preloadPos' = c + 1]_vars

\* The first module's probe has the wrong version and was skipped, at
\* preload and by load(); the module after it was initialized at preload.
C22_Witness ==
    /\ MaxCandidates >= 2
    /\ candidates[1].probe /\ candidates[1].version # VERSION
    /\ modState[1] = "skipped"
    /\ loadResult[1] = "skipped"
    /\ modState[2] = "initialized"
    /\ [cand |-> 2, at |-> "preload"] \in initCalls

(***************************************************************************)
(* Claims about the worker loop.                                           *)
(***************************************************************************)
\* C23. Cooperative termination: after SIGTERM is delivered to a worker
\* whose latch has the SIGTERM handler attached, the worker, alive and out
\* of its wait, eventually has taken the termination flag with
\* signal_received, on which it leaves its loop.
C23_CooperativeTermination ==
    \A p \in Procs :
        (pendingSig[p][FLAG_SIGTERM] /\ SIGTERM \in sigHandlers[p])
            ~> (~pendingSig[p][FLAG_SIGTERM] /\ wpc[p] = "idle")


(***************************************************************************)
(* The locks of the segment-mapping hook: src/src/ext/mod.rs 164-198,      *)
(* src/src/shmem.rs 42-76, src/src/lib.rs 95-104                           *)
(***************************************************************************)
\* The process that runs the hook (the host's startup process).
HookProc == 1

\* A variant of AddinLockRelease that leaves the lock with its holder.
AddinLockReleaseSkipped(holder) == holder

\* LWLockRelease(addin_shmem_init_lock): nobody holds the lock.
AddinLockRelease(holder) == NoProc

\* LWLockAcquire(addin_shmem_init_lock, LW_EXCLUSIVE) returns when nobody
\* holds the lock; the lock is not re-entrant.
AddinLockFree == addinLock = NoProc

\* The state of the start of the host with the hook's locks free.
InitHookLocks == InitHook

\* size_of::<T>() of the value a closure makes (lib.rs:90).
SizeOfValue(cb) == IF cb = "cbA" THEN 1 ELSE MaxAllocSize

\* A module's pgextkit_init reserves memory with allocate_shmem_with
\* (lib.rs 82-104) before the hook is entered.
preload_allocate_shmem_with(cb) ==
    /\ kpc = "idle"
    /\ static_allocate_shmem(cb, SizeOfValue(cb))

\* SharedDictionary::default, shmem.rs 54-58, called at ext/mod.rs:170: the
\* add-in lock is taken.
hook_default_acquire ==
    /\ kpc = "idle"
    /\ hpc = "preload"
    /\ AddinLockFree
    /\ addinLock' = HookProc
    /\ kpc' = "default_held"
    /\ UNCHANGED kcb
    /\ UNCHANGED <<dictVars, hookVars, lkOthers>>

\* SharedDictionary::default, shmem.rs 60-68: ShmemInitHash under the lock.
hook_default_init ==
    /\ kpc = "default_held"
    /\ hpc = "preload"
    /\ hook_registry

\* SharedDictionary::default, shmem.rs 70-72: the add-in lock is released.
hook_default_release ==
    /\ kpc = "default_held"
    /\ hpc = "hook_region"
    /\ addinLock' = AddinLockRelease(addinLock)
    /\ kpc' = "region"
    /\ UNCHANGED kcb
    /\ UNCHANGED <<dictVars, hookVars, lkOthers>>

\* __pgx_private_shmem_hook, line 174: the add-in lock is taken.
hook_region_acquire ==
    /\ kpc = "region"
    /\ AddinLockFree
    /\ addinLock' = HookProc
    /\ kpc' = "region_held"
    /\ UNCHANGED kcb
    /\ UNCHANGED <<dictVars, hookVars, lkOthers>>

\* __pgx_private_shmem_hook, lines 176-178 and 182-184: the dynamic region.
\* (The sub-allocator's init, after the release in the code, takes no lock.)
hook_region_init ==
    /\ kpc = "region_held"
    /\ hook_region

\* __pgx_private_shmem_hook, line 180: the add-in lock is released.
hook_region_release ==
    /\ kpc = "region_held"
    /\ hpc = "hook_drain"
    /\ addinLock' = AddinLockRelease(addinLock)
    /\ kpc' = "drain"
    /\ UNCHANGED kcb
    /\ UNCHANGED <<dictVars, hookVars, lkOthers>>

\* __pgx_private_shmem_hook, lines 186-189: the loop is given the next
\* reservation and takes the add-in lock.
hook_loop_acquire ==
    /\ kpc = "drain"
    /\ ALLOC_CALLBACKS # <<>>
    /\ AddinLockFree
    /\ addinLock' = HookProc
    /\ kpc' = "loop_held"
    /\ LET req == NextPending(ALLOC_CALLBACKS) IN
        kcb' = [cb |-> req.cb, size |-> req.size, payload |-> req.payload, mem |-> 0]
    /\ ALLOC_CALLBACKS' = Drained(ALLOC_CALLBACKS)
    /\ UNCHANGED <<hpc, shmemIndex, shmemFree, ALLOCATOR, hookRuns, uuids, calls, submitted>>
    /\ UNCHANGED workerVars
    /\ UNCHANGED <<dictVars, lkOthers>>

\* __pgx_private_shmem_hook, lines 191-192: ShmemInitStruct under the lock.
hook_loop_init ==
    /\ kpc = "loop_held"
    /\ LET r == ShmemInitStruct(shmemIndex, shmemFree,
                                ReservationShmemName(uuids + 1), kcb.size)
       IN
        /\ shmemIndex' = r.index
        /\ shmemFree' = r.free
        /\ kcb' = [kcb EXCEPT !.mem = r.ptr]
    /\ uuids' = uuids + 1
    /\ kpc' = "loop_allocated"
    /\ UNCHANGED addinLock
    /\ UNCHANGED <<hpc, ALLOC_CALLBACKS, ALLOCATOR, hookRuns, calls, submitted>>
    /\ UNCHANGED workerVars
    /\ UNCHANGED <<dictVars, lkOthers>>

\* __pgx_private_shmem_hook, line 194: the add-in lock is released.
hook_loop_release ==
    /\ kpc = "loop_allocated"
    /\ addinLock' = AddinLockRelease(addinLock)
    /\ kpc' = "loop_call"
    /\ UNCHANGED kcb
    /\ UNCHANGED <<dictVars, hookVars, lkOthers>>

\* __pgx_private_shmem_hook, line 196, and lib.rs 98-100: cb(shmem, payload)
\* is called; the closure writes the value into the memory.
closure_enter ==
    /\ kpc = "loop_call"
    /\ calls' = Append(calls, [cb |-> kcb.cb, payload |-> kcb.payload,
                               mem |-> kcb.mem, size |-> kcb.size])
    /\ dop' = [dop EXCEPT ![HookProc] = NoOp]
    /\ kpc' = "closure"
    /\ UNCHANGED <<addinLock, kcb>>
    /\ UNCHANGED <<hpc, ALLOC_CALLBACKS, shmemIndex, shmemFree, ALLOCATOR, hookRuns,
                   uuids, submitted>>
    /\ UNCHANGED workerVars
    /\ UNCHANGED <<dict, dictLock, dpc, dfound, dentry, dret, inserted, dafter>>
    /\ UNCHANGED lkOthers

\* lib.rs 101, shmem.rs 54-58: the closure opens the registry, which takes
\* the add-in lock.
closure_default_acquire ==
    /\ kpc = "closure"
    /\ AddinLockFree
    /\ addinLock' = HookProc
    /\ kpc' = "closure_default_held"
    /\ UNCHANGED kcb
    /\ UNCHANGED <<dictVars, hookVars, lkOthers>>

\* shmem.rs 60-72: the hash table is found in the segment, and the add-in
\* lock is released.
closure_default_release ==
    /\ kpc = "closure_default_held"
    /\ addinLock' = AddinLockRelease(addinLock)
    /\ kpc' = "closure_insert"
    /\ UNCHANGED kcb
    /\ UNCHANGED <<dictVars, hookVars, lkOthers>>

\* lib.rs 101-102: the closure inserts the memory under the caller's name.
closure_insert_acquire(name, value) ==
    /\ kpc = "closure_insert"
    /\ dop[HookProc] = NoOp
    /\ insert_acquire(HookProc, name, value)

\* shmem.rs 86-118: the rest of insert, and its unwinding when it panics.
closure_insert_step ==
    /\ kpc = "closure_insert"
    /\ dop[HookProc] # NoOp
    /\ \/ insert_search(HookProc)
       \/ insert_release(HookProc)
       \/ insert_write(HookProc)
       \/ abort_after_panic(HookProc)

\* lib.rs 103, ext/mod.rs 197: insert returns and the loop goes on; an error
\* raised in the closure leaves the hook.
closure_return ==
    /\ kpc = "closure_insert"
    /\ dop[HookProc] # NoOp
    /\ dpc[HookProc] = "idle"
    /\ kpc' = IF dret[HookProc] = UnitResult THEN "drain" ELSE "failed"
    /\ UNCHANGED <<addinLock, kcb>>
    /\ UNCHANGED <<dictVars, hookVars, lkOthers>>

\* __pgx_private_shmem_hook, line 198: the hook returns.
hook_locked_return ==
    /\ kpc = "drain"
    /\ hook_return

\* The steps of the hook and of the closures it calls.
HookLockSteps ==
    \/ hook_default_acquire
    \/ hook_default_init
    \/ hook_default_release
    \/ hook_region_acquire
    \/ hook_region_init
    \/ hook_region_release
    \/ hook_loop_acquire
    \/ hook_loop_init
    \/ hook_loop_release
    \/ closure_enter
    \/ closure_default_acquire
    \/ closure_default_release
    \/ \E name \in Names, value \in Ptrs : closure_insert_acquire(name, value)
    \/ closure_insert_step
    \/ closure_return
    \/ hook_locked_return

NextHookLocks ==
    \/ \E cb \in Callbacks : preload_allocate_shmem_with(cb)
    \/ HookLockSteps

SpecHookLocks == InitHookLocks /\ [][NextHookLocks]_vars

\* The hook has been left: by its return, or by an error raised in a closure.
HookLeft == (kpc = "drain" /\ hpc = "mapped") \/ kpc = "failed"

\* The hook is about to take the add-in lock.
AtAddinAcquire ==
    \/ kpc = "idle" /\ hpc = "preload"
    \/ kpc = "region"
    \/ kpc = "drain" /\ hpc = "hook_drain" /\ ALLOC_CALLBACKS # <<>>
    \/ kpc = "closure"

\* C34. The segment-mapping hook cannot deadlock on its own locks: the
\* add-in lock is free when a completion callback is called, so when the
\* callback opens the registry it finds the add-in lock free and when it
\* inserts it finds the registry lock free; while the hook or a closure has
\* not ended (and has not crashed) one of its steps can be taken; and when
\* the hook has been left neither lock is held.
C34_HookLocksNoDeadlock ==
    /\ (kpc = "loop_call" \/ kpc = "closure") => addinLock = NoProc
    /\ AtAddinAcquire => AddinLockFree
    /\ (kpc = "closure_insert" /\ dop[HookProc] = NoOp)
            => /\ addinLock = NoProc
               /\ LWLockCanAcquire(dictLock, "exclusive")
    /\ (kpc # "idle" /\ ~HookLeft /\ dpc[HookProc] # "crashed") => ENABLED HookLockSteps
    /\ HookLeft => /\ addinLock = NoProc
                   /\ dictLock = [excl |-> NoProc, shared |-> {}]

\* A hook that called a closure which opened the registry and inserted into
\* it has returned.
C34_Witness ==
    /\ kpc = "drain"
    /\ hpc = "mapped"
    /\ calls # <<>>
    /\ dop[HookProc].kind = "insert"
    /\ dret[HookProc] = UnitResult
    /\ \E k \in Keys : dict[k] # AbsentEntry

====
